---- MODULE Spec2Model ----
(***************************************************************************)
(* subgraph_wizard: configuration validation and the generation pipeline   *)
(* (manifest, schema and mapping contexts, and the files written).         *)
(*                                                                         *)
(* Representation.  Contract, template and event names are strings.  Text  *)
(* the program takes apart character by character (addresses, call-handler *)
(* signatures, parameter names) is a sequence of one-character strings.    *)
(* A name the program builds by concatenation is the sequence of its       *)
(* parts: f"handle{name}Block" is <<"handle", name, "Block">>.  The text   *)
(* produced by the Jinja templates is not modelled: an artifact is the     *)
(* context handed to render_template.  An Optional[list] is a record       *)
(* [is_none, items].                                                       *)
(***************************************************************************)
EXTENDS Integers, Sequences, FiniteSets, TLC

VARIABLES
    config,      \* the SubgraphConfig of the run
    abi_files,   \* content of <output_dir>/abis/: abi_path -> file state
    fs,          \* the other paths under output_dir: path -> "dir" | "old" | "generated"
    fs0,         \* fs when the run began
    pc,          \* position of the run
    validation,  \* outcome of validate_config ("none" before it ran)
    dry_run,     \* the dry_run argument of generate_subgraph_project
    abi_map,     \* result of _load_abi_map
    manifest,    \* context rendered into subgraph.yaml
    schema,      \* entities rendered into schema.graphql
    mappings,    \* name -> context rendered into src/mappings/<name>.ts
    rendered,    \* paths of the artifacts rendered so far
    error,       \* exception that ended the run ("none" if none)
    call,        \* the entry point of the run and its arguments
    result       \* what the call has computed so far

vars == <<config, abi_files, fs, fs0, pc, validation, dry_run, abi_map,
          manifest, schema, mappings, rendered, error, call, result>>

(***************************************************************************)
(* Bounds of the model.                                                    *)
(***************************************************************************)
MaxContracts == 2
MaxTemplates == 1
MaxCallHandlers == 1
MaxParams == 2
MaxRelationships == 1
MaxEntries == 2
MaxArrayDepth == 2
MaxNameLen == 3
MaxChunks == 2

(***************************************************************************)
(* Generic helpers.                                                        *)
(***************************************************************************)
Range(s) == {s[i] : i \in 1..Len(s)}

SeqsUpTo(S, lo, hi) == UNION {[1..n -> S] : n \in lo..hi}

RECURSIVE Concat(_)
Concat(ss) == IF ss = <<>> THEN <<>> ELSE Head(ss) \o Concat(Tail(ss))

\* [x for x in s], keeping the first occurrence of each element (used for
\* "append if not already in the list").
RECURSIVE AppendAllNew(_, _)
AppendAllNew(acc, s) ==
    IF s = <<>> THEN acc
    ELSE AppendAllNew(IF Head(s) \in Range(acc) THEN acc ELSE Append(acc, Head(s)),
                      Tail(s))

\* dict.get(key, default) on a record
DictGet(d, key, default) == IF key \in DOMAIN d THEN d[key] ELSE default

\* ",".join(texts)
RECURSIVE JoinComma(_)
JoinComma(texts) ==
    IF texts = <<>> THEN <<>>
    ELSE IF Len(texts) = 1 THEN texts[1]
    ELSE texts[1] \o <<",">> \o JoinComma(Tail(texts))

\* None where the value is text otherwise
PyNone == <<"None">>

NoneList == [is_none |-> TRUE, items |-> <<>>]
Some(l) == [is_none |-> FALSE, items |-> l]
\* Python truthiness of an Optional[list]: None and [] are both false.
Truthy(opt) == ~opt.is_none /\ opt.items # <<>>

(***************************************************************************)
(* Characters.                                                             *)
(***************************************************************************)
Upper(c) ==
    CASE c = "a" -> "A" [] c = "b" -> "B" [] c = "f" -> "F" [] c = "g" -> "G"
      [] c = "x" -> "X" [] c = "t" -> "T" [] c = "i" -> "I" [] c = "o" -> "O"
      [] OTHER -> c

Lower(c) ==
    CASE c = "A" -> "a" [] c = "B" -> "b" [] c = "F" -> "f" [] c = "G" -> "g"
      [] c = "X" -> "x" [] c = "T" -> "t" [] c = "I" -> "i" [] c = "O" -> "o"
      [] OTHER -> c

LowerStr(s) == [i \in 1..Len(s) |-> Lower(s[i])]

IsSpace(c) == c = " "

RECURSIVE LStrip(_)
LStrip(s) == IF s # <<>> /\ IsSpace(Head(s)) THEN LStrip(Tail(s)) ELSE s

RECURSIVE RStrip(_)
RStrip(s) ==
    IF s # <<>> /\ IsSpace(s[Len(s)]) THEN RStrip(SubSeq(s, 1, Len(s) - 1)) ELSE s

\* str.strip()
Strip(s) == RStrip(LStrip(s))

\* s.split(sep)[0]: the text before the first sep (all of s when sep is absent)
RECURSIVE SplitHead(_, _)
SplitHead(s, sep) ==
    IF s = <<>> \/ Head(s) = sep THEN <<>>
    ELSE <<Head(s)>> \o SplitHead(Tail(s), sep)

(***************************************************************************)
(* config/validation.py                                                    *)
(***************************************************************************)
VALID_MAPPING_MODES == {"stub", "auto"}
VALID_COMPLEXITY_LEVELS == {"basic", "intermediate", "advanced"}
SUPPORTED_CONFIG_VERSIONS == {1, 2, 3}
SUPPORTED_NETWORKS == {"ethereum", "optimism", "arbitrum"}

AddressHexLen == 40
HexChars == {"0", "1", "2", "3", "4", "5", "6", "7", "8", "9",
             "a", "b", "c", "d", "e", "f", "A", "B", "C", "D", "E", "F"}

\* ADDRESS_PATTERN = ^0x[a-fA-F0-9]{40}$
ADDRESS_PATTERN(address) ==
    /\ Len(address) = 2 + AddressHexLen
    /\ address[1] = "0"
    /\ address[2] = "x"
    /\ \A i \in 3..Len(address) : address[i] \in HexChars

\* Each validate_* operator returns "ok" or the kind of ValidationError the
\* function raises first.
validate_address(address) ==
    IF ADDRESS_PATTERN(address) THEN "ok" ELSE "Invalid address"

validate_call_handler_signature(signature) ==
    IF signature = <<>> \/ Strip(signature) = <<>>
    THEN "Empty call handler signature"
    ELSE IF "(" \notin Range(signature) \/ ")" \notin Range(signature)
    THEN "Invalid call handler signature"
    ELSE IF Strip(SplitHead(signature, "(")) = <<>>
    THEN "Call handler signature missing function name"
    ELSE "ok"

\* The first result that is not "ok" ("ok" if there is none): a loop of
\* checks that stops at the first raise.
RECURSIVE FirstError(_)
FirstError(results) ==
    IF results = <<>> THEN "ok"
    ELSE IF Head(results) # "ok" THEN Head(results)
    ELSE FirstError(Tail(results))

ValidateSignatures(sigs) ==
    FirstError([i \in 1..Len(sigs) |-> validate_call_handler_signature(sigs[i])])

\* validate_template without the source_contract membership check
validate_template_AnySource(template, contract_names) ==
    IF template.name = "" THEN "Template name cannot be empty"
    ELSE IF template.abi_path = <<>> THEN "ABI path cannot be empty"
    ELSE IF template.source_event = "" THEN "Source event cannot be empty"
    ELSE IF template.event_handlers = <<>>
    THEN "must have at least one event handler"
    ELSE IF \E i \in 1..Len(template.event_handlers) : template.event_handlers[i] = ""
    THEN "Empty event handler name"
    ELSE IF Truthy(template.call_handlers)
    THEN ValidateSignatures(template.call_handlers.items)
    ELSE "ok"

validate_template(template, contract_names) ==
    IF template.name = "" THEN "Template name cannot be empty"
    ELSE IF template.abi_path = <<>> THEN "ABI path cannot be empty"
    ELSE IF template.source_contract \notin contract_names
    THEN "unknown source_contract"
    ELSE IF template.source_event = "" THEN "Source event cannot be empty"
    ELSE IF template.event_handlers = <<>>
    THEN "must have at least one event handler"
    ELSE IF \E i \in 1..Len(template.event_handlers) : template.event_handlers[i] = ""
    THEN "Empty event handler name"
    ELSE IF Truthy(template.call_handlers)
    THEN ValidateSignatures(template.call_handlers.items)
    ELSE "ok"

validate_contract(contract, complexity) ==
    IF contract.name = "" THEN "Contract name cannot be empty"
    ELSE IF validate_address(contract.address) # "ok"
    THEN validate_address(contract.address)
    ELSE IF contract.start_block < 0 THEN "Invalid start_block"
    ELSE IF contract.abi_path = <<>> THEN "ABI path cannot be empty"
    ELSE IF complexity = "intermediate" /\ Truthy(contract.call_handlers)
    THEN ValidateSignatures(contract.call_handlers.items)
    ELSE "ok"

\* len(xs) != len(set(xs))
HasDuplicates(xs) == Len(xs) # Cardinality(Range(xs))

ContractNamesOf(cfg) == [i \in 1..Len(cfg.contracts) |-> cfg.contracts[i].name]

\* the address compared as written, letter case included
ContractAddressKey_CaseSensitive(contract) == contract.address

\* [c.address.lower() for c in config.contracts]
ContractAddressKey(contract) == LowerStr(contract.address)

ContractAddressesOf(cfg) ==
    [i \in 1..Len(cfg.contracts) |-> ContractAddressKey(cfg.contracts[i])]

TemplateNamesOf(cfg) == [i \in 1..Len(cfg.templates) |-> cfg.templates[i].name]

VALID_RELATION_TYPES == {"one_to_one", "one_to_many", "many_to_many"}

\* from_entity and to_entity are entity names (sequences of parts) and
\* field_name is a sequence of characters; the empty text is <<>>.
validate_entity_relationship(relationship) ==
    IF relationship.from_entity = <<>> THEN "from_entity cannot be empty"
    ELSE IF relationship.to_entity = <<>> THEN "to_entity cannot be empty"
    ELSE IF relationship.field_name = <<>> THEN "field_name cannot be empty"
    ELSE IF relationship.relation_type \notin VALID_RELATION_TYPES
    THEN "Invalid relation_type"
    ELSE "ok"

\* The advanced branch of validate_config.
ValidateAdvanced(cfg) ==
    LET results == [i \in 1..Len(cfg.templates) |->
                       validate_template(cfg.templates[i], Range(ContractNamesOf(cfg)))]
        relations == [i \in 1..Len(cfg.entity_relationships) |->
                         validate_entity_relationship(cfg.entity_relationships[i])]
    IN  IF FirstError(results) # "ok" THEN FirstError(results)
        ELSE IF HasDuplicates(TemplateNamesOf(cfg)) THEN "Duplicate template names"
        ELSE FirstError(relations)

validate_config(cfg) ==
    IF cfg.config_version \notin SUPPORTED_CONFIG_VERSIONS
    THEN "Unsupported config_version"
    ELSE IF cfg.name = "" THEN "Subgraph name cannot be empty"
    ELSE IF cfg.network \notin SUPPORTED_NETWORKS THEN "Unknown network"
    ELSE IF cfg.output_dir = "" THEN "Output directory cannot be empty"
    ELSE IF cfg.mappings_mode \notin VALID_MAPPING_MODES THEN "Invalid mappings_mode"
    ELSE IF cfg.complexity \notin VALID_COMPLEXITY_LEVELS THEN "Invalid complexity"
    ELSE IF cfg.contracts = <<>> THEN "At least one contract must be specified"
    ELSE LET results == [i \in 1..Len(cfg.contracts) |->
                            validate_contract(cfg.contracts[i], cfg.complexity)]
         IN  IF FirstError(results) # "ok" THEN FirstError(results)
             ELSE IF HasDuplicates(ContractNamesOf(cfg))
             THEN "Duplicate contract names"
             ELSE IF HasDuplicates(ContractAddressesOf(cfg))
             THEN "Duplicate contract addresses"
             ELSE IF cfg.complexity = "advanced" THEN ValidateAdvanced(cfg)
             ELSE "ok"

(***************************************************************************)
(* abi/utils.py                                                            *)
(***************************************************************************)
\* A Solidity type is <<base, suffix, ...>> with each suffix "[]" or "[N]";
\* the missing type "" is <<>>.  A graph type is a sequence of tokens.
SOLIDITY_TO_GRAPH_TYPES(base) ==
    CASE base = "address" -> "Bytes"
      [] base = "uint256" -> "BigInt"
      [] base = "uint8" -> "Int"
      [] base = "bool" -> "Boolean"
      [] base = "string" -> "String"
      [] base = "bytes32" -> "Bytes"
      [] OTHER -> "Bytes"

ArraySuffixes == {"[]", "[3]"}

\* solidity_type.split("[")[0]: what precedes the first array suffix
BeforeFirstBracket(solidity_type) ==
    LET first == CHOOSE i \in 1..Len(solidity_type) :
                     /\ solidity_type[i] \in ArraySuffixes
                     /\ \A j \in 1..(i - 1) : solidity_type[j] \notin ArraySuffixes
    IN  SubSeq(solidity_type, 1, first - 1)

RECURSIVE solidity_type_to_graph(_)
solidity_type_to_graph(solidity_type) ==
    IF solidity_type # <<>> /\ solidity_type[Len(solidity_type)] = "[]"
    THEN <<"[">> \o solidity_type_to_graph(SubSeq(solidity_type, 1, Len(solidity_type) - 1))
         \o <<"!]">>
    ELSE IF \E i \in 1..Len(solidity_type) : solidity_type[i] \in ArraySuffixes
    THEN <<"[">> \o solidity_type_to_graph(BeforeFirstBracket(solidity_type)) \o <<"!]">>
    ELSE IF solidity_type = <<>> THEN <<"Bytes">>
    ELSE <<SOLIDITY_TO_GRAPH_TYPES(solidity_type[1])>>

DigitChar(n) ==
    CASE n = 0 -> "0" [] n = 1 -> "1" [] n = 2 -> "2" [] n = 3 -> "3"
      [] n = 4 -> "4" [] OTHER -> "9"

\* the signature with "indexed " before the type of each indexed input
build_event_signature_IndexedAware(event_name, inputs) ==
    <<event_name, "(">>
    \o JoinComma([i \in 1..Len(inputs) |->
                     IF DictGet(inputs[i], "indexed", FALSE)
                     THEN <<"indexed ">> \o DictGet(inputs[i], "type", <<>>)
                     ELSE DictGet(inputs[i], "type", <<>>)])
    \o <<")">>

\* f"{event_name}({','.join([inp.get('type', '') for inp in inputs])})": the
\* param_types list with the indexed keyword is built and not used.
build_event_signature(event_name, inputs) ==
    <<event_name, "(">>
    \o JoinComma([i \in 1..Len(inputs) |-> DictGet(inputs[i], "type", <<>>)])
    \o <<")">>

\* The params loop of extract_events: an unnamed input gets param<len(params)>.
ExtractParams(inputs) ==
    [i \in 1..Len(inputs) |->
        [name |-> IF DictGet(inputs[i], "name", <<>>) = <<>>
                  THEN <<"p", "a", "r", "a", "m", DigitChar(i - 1)>>
                  ELSE inputs[i].name,
         solidity_type |-> DictGet(inputs[i], "type", <<>>),
         graph_type |-> solidity_type_to_graph(DictGet(inputs[i], "type", <<>>)),
         indexed |-> DictGet(inputs[i], "indexed", FALSE)]]

\* An entry of inputs that is not a JSON object is [json |-> its kind]; a
\* type that is null is PyNone.  inp.get raises AttributeError on the first,
\* solidity_type.endswith on the second.
InputRaises(inp) ==
    \/ "json" \in DOMAIN inp
    \/ DictGet(inp, "type", <<>>) = PyNone

\* An exception leaves extract_events: a named event has an input that raises.
ExtractEventsRaises(abi) ==
    \E i \in 1..Len(abi) :
        /\ abi[i].type = "event"
        /\ DictGet(abi[i], "name", "") # ""
        /\ \E k \in 1..Len(DictGet(abi[i], "inputs", <<>>)) :
               InputRaises(abi[i].inputs[k])

RECURSIVE extract_events(_)
extract_events(abi) ==
    IF abi = <<>> THEN <<>>
    ELSE LET entry == Head(abi)
             event_name == DictGet(entry, "name", "")
             inputs == DictGet(entry, "inputs", <<>>)
         IN  IF entry.type = "event" /\ event_name # ""
             THEN <<[name |-> event_name,
                     params |-> ExtractParams(inputs),
                     signature |-> build_event_signature(event_name, inputs)]>>
                  \o extract_events(Tail(abi))
             ELSE extract_events(Tail(abi))

get_handler_name(event_name) == <<"handle", event_name>>

get_entity_name(event_name) == <<event_name>>

\* name.split("_")
RECURSIVE SplitUnderscore(_)
SplitUnderscore(name) ==
    LET first == SplitHead(name, "_")
    IN  IF Len(first) = Len(name) THEN <<first>>
        ELSE <<first>> \o SplitUnderscore(SubSeq(name, Len(first) + 2, Len(name)))

\* str.capitalize(): first character upper-cased, the rest lower-cased
Capitalize(part) ==
    IF part = <<>> THEN <<>>
    ELSE <<Upper(part[1])>> \o LowerStr(Tail(part))

to_camel_case(name) ==
    IF name = <<>> THEN name
    ELSE LET parts == SplitUnderscore(name)
         IN  LowerStr(parts[1])
             \o Concat([i \in 1..(Len(parts) - 1) |-> Capitalize(parts[i + 1])])

\* abi_map.get(name) if abi_map else None
AbiGet(map, name) == IF name \in DOMAIN map THEN Some(map[name]) ELSE NoneList

(***************************************************************************)
(* generate/subgraph_yaml.py                                               *)
(***************************************************************************)
\* function_signature.split("(")[0].strip()
FuncName(function_signature) == Strip(SplitHead(function_signature, "("))

\* func_name[0] raises IndexError on the empty function name
RaisesIndexError(function_signature) == FuncName(function_signature) = <<>>

\* f"{func_name[0].upper()}{func_name[1:]}Call" (the value is not used when
\* the expression raises)
CallEntityName(function_signature) ==
    LET func_name == FuncName(function_signature)
    IN  IF func_name = <<>> THEN <<"IndexError">>
        ELSE <<Upper(func_name[1])>> \o Tail(func_name) \o <<"Call">>

get_call_handler_name(function_signature) ==
    <<"handle">> \o CallEntityName(function_signature)

get_block_handler_name(contract_name) == <<"handle", contract_name, "Block">>

PlaceholderEntities(contract) == << <<contract.name, "Event">> >>

PlaceholderEventHandlers(contract) ==
    <<[event_signature |-> <<contract.name, "Event", "(", "address", ",", "uint256", ")">>,
       handler_name |-> <<"handle", contract.name, "Event">>]>>

EventHandlersOf(events) ==
    [i \in 1..Len(events) |->
        [event_signature |-> events[i].signature,
         handler_name |-> get_handler_name(events[i].name)]]

EntityNamesOf(events) == [i \in 1..Len(events) |-> get_entity_name(events[i].name)]

\* the entity list with no placeholder for an ABI that has no event
ContractEventEntities_NoFallback(contract, abi) ==
    IF Truthy(abi) THEN EntityNamesOf(extract_events(abi.items))
    ELSE PlaceholderEntities(contract)

\* The entity list of _build_contract_context before the call and block
\* handler entities are appended (lines 74-104).
ContractEventEntities(contract, abi) ==
    IF Truthy(abi) /\ extract_events(abi.items) # <<>>
    THEN EntityNamesOf(extract_events(abi.items))
    ELSE PlaceholderEntities(contract)

ContractEventHandlers(contract, abi) ==
    IF Truthy(abi) /\ extract_events(abi.items) # <<>>
    THEN EventHandlersOf(extract_events(abi.items))
    ELSE PlaceholderEventHandlers(contract)

CallHandlersContext(call_handlers) ==
    [i \in 1..Len(call_handlers) |->
        [function_signature |-> call_handlers[i],
         handler_name |-> get_call_handler_name(call_handlers[i])]]

\* The entities of the call handlers and of the block handler, appended when
\* not already listed.
WithHandlerEntities(entities, owner, use_handlers) ==
    LET with_calls ==
            IF use_handlers /\ Truthy(owner.call_handlers)
            THEN AppendAllNew(entities,
                     [i \in 1..Len(owner.call_handlers.items) |->
                         CallEntityName(owner.call_handlers.items[i])])
            ELSE entities
    IN  IF use_handlers /\ owner.block_handler
        THEN AppendAllNew(with_calls, << <<owner.name, "Block">> >>)
        ELSE with_calls

TemplateAbisOf(contract, templates) ==
    LET mine == SelectSeq(templates, LAMBDA t : t.source_contract = contract.name)
    IN  [i \in 1..Len(mine) |-> [name |-> mine[i].name, path |-> mine[i].abi_path]]

\* templates is <<>> for "None or empty".
build_contract_context(contract, abi, complexity, templates) ==
    LET use_handlers == complexity \in {"intermediate", "advanced"}
    IN  [name |-> contract.name,
         address |-> contract.address,
         start_block |-> contract.start_block,
         abi_path |-> contract.abi_path,
         entities |-> WithHandlerEntities(ContractEventEntities(contract, abi),
                                          contract, use_handlers),
         event_handlers |-> ContractEventHandlers(contract, abi),
         call_handlers |-> IF use_handlers /\ Truthy(contract.call_handlers)
                           THEN CallHandlersContext(contract.call_handlers.items)
                           ELSE <<>>,
         block_handler |-> use_handlers /\ contract.block_handler,
         block_handler_name |-> IF use_handlers /\ contract.block_handler
                                THEN get_block_handler_name(contract.name)
                                ELSE <<>>,
         template_abis |-> IF complexity = "advanced"
                           THEN TemplateAbisOf(contract, templates)
                           ELSE <<>>]

\* IndexError out of _build_contract_context
ContractContextRaises(contract, complexity) ==
    /\ complexity \in {"intermediate", "advanced"}
    /\ Truthy(contract.call_handlers)
    /\ \E i \in 1..Len(contract.call_handlers.items) :
            RaisesIndexError(contract.call_handlers.items[i])

\* The events of a template's ABI named in its event_handlers; <<>> when the
\* ABI is absent, has no events or has none of them.
FilteredEvents(template, abi) ==
    IF Truthy(abi)
    THEN SelectSeq(extract_events(abi.items),
                   LAMBDA e : e.name \in Range(template.event_handlers))
    ELSE <<>>

TemplateFallbackHandlers(template) ==
    [i \in 1..Len(template.event_handlers) |->
        [event_signature |-> <<template.event_handlers[i], "(", ")">>,
         handler_name |-> get_handler_name(template.event_handlers[i])]]

TemplateFallbackEntities(template) ==
    [i \in 1..Len(template.event_handlers) |->
        get_entity_name(template.event_handlers[i])]

build_template_context(template, abi) ==
    LET filtered == FilteredEvents(template, abi)
    IN  [name |-> template.name,
         abi_path |-> template.abi_path,
         entities |-> WithHandlerEntities(
                          IF filtered # <<>> THEN EntityNamesOf(filtered)
                          ELSE TemplateFallbackEntities(template),
                          template, TRUE),
         event_handlers |-> IF filtered # <<>> THEN EventHandlersOf(filtered)
                            ELSE TemplateFallbackHandlers(template),
         source_contract |-> template.source_contract,
         source_event |-> template.source_event,
         call_handlers |-> IF Truthy(template.call_handlers)
                           THEN CallHandlersContext(template.call_handlers.items)
                           ELSE <<>>,
         block_handler |-> template.block_handler,
         block_handler_name |-> IF template.block_handler
                                THEN get_block_handler_name(template.name)
                                ELSE <<>>]

TemplateContextRaises(template) ==
    /\ Truthy(template.call_handlers)
    /\ \E i \in 1..Len(template.call_handlers.items) :
            RaisesIndexError(template.call_handlers.items[i])

\* config.templates whatever the tier
TemplatesInUse_AnyTier(cfg) == cfg.templates

\* config.templates when the tier is advanced, else nothing
TemplatesInUse(cfg) == IF cfg.complexity = "advanced" THEN cfg.templates ELSE <<>>

render_subgraph_yaml(cfg, map) ==
    [subgraph_name |-> cfg.name,
     network |-> cfg.network,
     contracts |-> [i \in 1..Len(cfg.contracts) |->
                       build_contract_context(cfg.contracts[i],
                           AbiGet(map, cfg.contracts[i].name),
                           cfg.complexity, TemplatesInUse(cfg))],
     templates |-> [i \in 1..Len(TemplatesInUse(cfg)) |->
                       build_template_context(cfg.templates[i],
                           AbiGet(map, cfg.templates[i].name))]]

SubgraphYamlRaises(cfg) ==
    \/ \E i \in 1..Len(cfg.contracts) :
           ContractContextRaises(cfg.contracts[i], cfg.complexity)
    \/ \E i \in 1..Len(TemplatesInUse(cfg)) : TemplateContextRaises(cfg.templates[i])

\* extract_events raises on an ABI that _load_abi_map has loaded:
\* _build_contract_context and _build_template_context call it on every one
AbiMapRaises(map) == \E name \in DOMAIN map : ExtractEventsRaises(map[name])

(***************************************************************************)
(* generate/schema.py                                                      *)
(***************************************************************************)
Chars_sender == <<"s", "e", "n", "d", "e", "r">>
Chars_value == <<"v", "a", "l", "u", "e">>

build_entity_from_event(event) ==
    [name |-> get_entity_name(event.name),
     fields |-> [i \in 1..Len(event.params) |->
                    [name |-> to_camel_case(event.params[i].name),
                     type |-> event.params[i].graph_type,
                     required |-> TRUE,
                     derived_from |-> <<>>]]]

build_entity_for_contract_placeholder(contract) ==
    [name |-> <<contract.name, "Event">>,
     fields |-> <<[name |-> Chars_sender, type |-> <<"Bytes">>, required |-> TRUE,
                   derived_from |-> <<>>],
                  [name |-> Chars_value, type |-> <<"BigInt">>, required |-> TRUE,
                   derived_from |-> <<>>]>>]

build_entities_from_template(template, abi) ==
    IF Truthy(abi)
    THEN LET events == extract_events(abi.items)
         IN  IF events # <<>>
             THEN LET filtered_events ==
                          SelectSeq(events,
                                    LAMBDA e : e.name \in Range(template.event_handlers))
                  IN  [i \in 1..Len(filtered_events) |->
                          build_entity_from_event(filtered_events[i])]
             ELSE [i \in 1..Len(template.event_handlers) |->
                      [name |-> get_entity_name(template.event_handlers[i]),
                       fields |-> <<>>]]
    ELSE [i \in 1..Len(template.event_handlers) |->
             [name |-> get_entity_name(template.event_handlers[i]), fields |-> <<>>]]

\* The entities render_schema builds for one contract (the body of its loop
\* over config.contracts).
SchemaEntitiesForContract(contract, map) ==
    IF contract.name \in DOMAIN map /\ extract_events(map[contract.name]) # <<>>
    THEN LET events == extract_events(map[contract.name])
         IN  [i \in 1..Len(events) |-> build_entity_from_event(events[i])]
    ELSE <<build_entity_for_contract_placeholder(contract)>>

RelationFieldType(relationship) ==
    IF relationship.relation_type \in {"one_to_many", "many_to_many"}
    THEN <<"[">> \o relationship.to_entity \o <<"!]!">>
    ELSE relationship.to_entity

\* entity_map = {entity["name"]: entity ...}: of several entities with one
\* name the last is the one a relationship field is appended to.
IsMappedEntity(entities, i) ==
    \A j \in (i + 1)..Len(entities) : entities[j].name # entities[i].name

add_relationship_fields(entities, relationships) ==
    [i \in 1..Len(entities) |->
        IF IsMappedEntity(entities, i)
        THEN LET mine == SelectSeq(relationships,
                             LAMBDA r : r.from_entity = entities[i].name)
             IN  [entities[i] EXCEPT !.fields =
                     @ \o [k \in 1..Len(mine) |->
                              [name |-> mine[k].field_name,
                               type |-> RelationFieldType(mine[k]),
                               required |-> FALSE,
                               derived_from |->
                                   IF mine[k].derived_from \in {PyNone, <<>>}
                                   THEN <<>> ELSE mine[k].derived_from]]]
        ELSE entities[i]]

render_schema(cfg, map) ==
    LET contract_entities ==
            Concat([i \in 1..Len(cfg.contracts) |->
                       SchemaEntitiesForContract(cfg.contracts[i], map)])
        template_entities ==
            Concat([i \in 1..Len(TemplatesInUse(cfg)) |->
                       build_entities_from_template(cfg.templates[i],
                           AbiGet(map, cfg.templates[i].name))])
        entities == contract_entities \o template_entities
    IN  IF cfg.complexity = "advanced" /\ cfg.entity_relationships # <<>>
        THEN add_relationship_fields(entities, cfg.entity_relationships)
        ELSE entities

(***************************************************************************)
(* generate/mappings_auto.py                                               *)
(***************************************************************************)
\* [f"{event['name']} as {event['name']}Event" for event in events]
EventTypeImports(names) ==
    [i \in 1..Len(names) |-> <<names[i], " as ", names[i], "Event">>]

\* The import of the template types a contract instantiates, if any.
TemplateImports(contract, templates) ==
    LET mine == SelectSeq(templates, LAMBDA t : t.source_contract = contract.name)
    IN  IF mine = <<>> THEN <<>>
        ELSE <<[types |-> [i \in 1..Len(mine) |-> <<mine[i].name>>],
                from |-> <<"../../generated/templates">>]>>

auto_build_imports_for_events(contract, events, templates) ==
    LET names == [i \in 1..Len(events) |-> events[i].name]
    IN  (IF names # <<>>
         THEN <<[types |-> EventTypeImports(names),
                 from |-> <<"../../generated/", contract.name, "/", contract.name>>],
                [types |-> [i \in 1..Len(names) |-> get_entity_name(names[i])],
                 from |-> <<"../../generated/schema">>]>>
         ELSE <<>>)
        \o TemplateImports(contract, templates)

auto_build_imports_placeholder(contract, templates) ==
    <<[types |-> << <<contract.name, "Event", " as ", contract.name, "EventEvent">> >>,
       from |-> <<"../../generated/", contract.name, "/", contract.name>>],
      [types |-> << <<contract.name, "Event">> >>,
       from |-> <<"../../generated/schema">>]>>
    \o TemplateImports(contract, templates)

\* [{"entity_field": to_camel_case(name), "event_param": name} ...]
ParamMappings(event) ==
    [i \in 1..Len(event.params) |->
        [entity_field |-> to_camel_case(event.params[i].name),
         event_param |-> event.params[i].name]]

\* The loop over event["params"] that picks address_param (lines 154-160):
\* it stops at the first non-indexed address and else keeps the last
\* indexed one.  It reads the keys "type" and "indexed" of each parameter.
RECURSIVE AddressParamLoop(_, _)
AddressParamLoop(params, address_param) ==
    IF params = <<>> THEN address_param
    ELSE LET param == Head(params)
         IN  IF DictGet(param, "type", PyNone) = <<"address">>
                /\ ~DictGet(param, "indexed", FALSE)
             THEN param.name
             ELSE IF DictGet(param, "type", PyNone) = <<"address">>
             THEN AddressParamLoop(Tail(params), param.name)
             ELSE AddressParamLoop(Tail(params), address_param)

ADDRESS_PARAM_HERE == <<"ADDRESS_PARAM_HERE">>

\* handler["template_creation"]: <<>> when the key is not set
TemplateCreation(event, templates, contract_name) ==
    LET triggered == SelectSeq(templates,
                         LAMBDA t : /\ t.source_contract = contract_name
                                    /\ t.source_event = event.name)
        address_param == AddressParamLoop(event.params, PyNone)
    IN  IF triggered = <<>> THEN <<>>
        ELSE <<[template_name |-> triggered[1].name,
                address_param |-> IF address_param # PyNone /\ address_param # <<>>
                                  THEN address_param
                                  ELSE ADDRESS_PARAM_HERE]>>

auto_build_handler_for_event(event, templates, contract_name) ==
    [name |-> get_handler_name(event.name),
     event_type |-> <<event.name, "Event">>,
     entity_name |-> get_entity_name(event.name),
     params |-> ParamMappings(event),
     template_creation |-> TemplateCreation(event, templates, contract_name)]

PlaceholderParams ==
    <<[entity_field |-> Chars_sender, event_param |-> Chars_sender],
      [entity_field |-> Chars_value, event_param |-> Chars_value]>>

auto_build_handler_placeholder(contract) ==
    [name |-> <<"handle", contract.name, "Event">>,
     event_type |-> <<contract.name, "Event", "Event">>,
     entity_name |-> <<contract.name, "Event">>,
     params |-> PlaceholderParams,
     template_creation |-> <<>>]

build_call_handler_context(function_signature) ==
    [name |-> get_call_handler_name(function_signature),
     function_name |-> FuncName(function_signature),
     call_type |-> CallEntityName(function_signature),
     entity_name |-> CallEntityName(function_signature),
     inputs |-> <<>>,
     outputs |-> <<>>]

\* context["block_handler"]: <<>> when the key is not set
build_block_handler_context(name) ==
    <<[name |-> <<"handle", name, "Block">>,
       contract_name |-> name,
       entity_name |-> <<name, "Block">>]>>

CallHandlerContexts(call_handlers) ==
    [i \in 1..Len(call_handlers) |-> build_call_handler_context(call_handlers[i])]

render_mapping_auto(contract, network, abi, complexity, templates) ==
    LET contract_templates ==
            IF complexity = "advanced"
            THEN SelectSeq(templates, LAMBDA t : t.source_contract = contract.name)
            ELSE <<>>
        events == IF Truthy(abi) THEN extract_events(abi.items) ELSE <<>>
        use_handlers == complexity \in {"intermediate", "advanced"}
    IN  [template |-> "mappings/mapping_auto.ts.j2",
         contract_name |-> contract.name,
         network |-> network,
         imports |-> IF events # <<>>
                     THEN auto_build_imports_for_events(contract, events,
                                                        contract_templates)
                     ELSE auto_build_imports_placeholder(contract, contract_templates),
         handlers |-> IF events # <<>>
                      THEN [i \in 1..Len(events) |->
                               auto_build_handler_for_event(events[i],
                                   contract_templates, contract.name)]
                      ELSE <<auto_build_handler_placeholder(contract)>>,
         call_handlers |-> IF use_handlers /\ Truthy(contract.call_handlers)
                           THEN CallHandlerContexts(contract.call_handlers.items)
                           ELSE <<>>,
         block_handler |-> IF use_handlers /\ contract.block_handler
                           THEN build_block_handler_context(contract.name)
                           ELSE <<>>]

build_template_placeholders_imports(template) ==
    <<[types |-> EventTypeImports(template.event_handlers),
       from |-> <<"../../generated/templates/", template.name, "/", template.name>>],
      [types |-> [i \in 1..Len(template.event_handlers) |->
                     get_entity_name(template.event_handlers[i])],
       from |-> <<"../../generated/schema">>]>>

build_template_placeholders_handlers(template) ==
    [i \in 1..Len(template.event_handlers) |->
        [name |-> get_handler_name(template.event_handlers[i]),
         event_type |-> <<template.event_handlers[i], "Event">>,
         entity_name |-> get_entity_name(template.event_handlers[i]),
         params |-> <<>>,
         template_creation |-> <<>>]]

render_template_mapping_auto(template, network, abi) ==
    LET filtered_events == FilteredEvents(template, abi)
        names == [i \in 1..Len(filtered_events) |-> filtered_events[i].name]
    IN  [template |-> "mappings/mapping_auto.ts.j2",
         contract_name |-> template.name,
         network |-> network,
         imports |-> IF filtered_events # <<>>
                     THEN <<[types |-> EventTypeImports(names),
                             from |-> <<"../../generated/templates/", template.name,
                                        "/", template.name>>],
                            [types |-> [i \in 1..Len(names) |->
                                           get_entity_name(names[i])],
                             from |-> <<"../../generated/schema">>]>>
                     ELSE IF template.event_handlers = <<>> THEN <<>>
                     ELSE build_template_placeholders_imports(template),
         handlers |-> IF filtered_events # <<>>
                      THEN [i \in 1..Len(filtered_events) |->
                               auto_build_handler_for_event(filtered_events[i],
                                                            <<>>, template.name)]
                      ELSE build_template_placeholders_handlers(template),
         call_handlers |-> IF Truthy(template.call_handlers)
                           THEN CallHandlerContexts(template.call_handlers.items)
                           ELSE <<>>,
         block_handler |-> IF template.block_handler
                           THEN build_block_handler_context(template.name)
                           ELSE <<>>]

\* A dict built by assigning pairs[i].key := pairs[i].value in order.
DictOf(pairs) ==
    [k \in {pairs[i].key : i \in 1..Len(pairs)} |->
        LET last == CHOOSE i \in 1..Len(pairs) :
                        /\ pairs[i].key = k
                        /\ \A j \in (i + 1)..Len(pairs) : pairs[j].key # k
        IN  pairs[last].value]

render_all_mappings_auto(cfg, map) ==
    DictOf([i \in 1..Len(cfg.contracts) |->
               [key |-> cfg.contracts[i].name,
                value |-> render_mapping_auto(cfg.contracts[i], cfg.network,
                              AbiGet(map, cfg.contracts[i].name), cfg.complexity,
                              TemplatesInUse(cfg))]]
           \o [i \in 1..Len(TemplatesInUse(cfg)) |->
                  [key |-> cfg.templates[i].name,
                   value |-> render_template_mapping_auto(cfg.templates[i],
                                 cfg.network, AbiGet(map, cfg.templates[i].name))]])

\* IndexError out of the call-handler contexts of a contract's mapping
AutoMappingRaises(contract, complexity) == ContractContextRaises(contract, complexity)

AllMappingsAutoRaise(cfg) ==
    \/ \E i \in 1..Len(cfg.contracts) :
           AutoMappingRaises(cfg.contracts[i], cfg.complexity)
    \/ \E i \in 1..Len(TemplatesInUse(cfg)) : TemplateContextRaises(cfg.templates[i])

(***************************************************************************)
(* generate/mappings_stub.py                                               *)
(***************************************************************************)
stub_build_imports_for_events(contract, events) ==
    LET names == [i \in 1..Len(events) |-> events[i].name]
    IN  IF names # <<>>
        THEN <<[types |-> EventTypeImports(names),
                from |-> <<"../generated/", contract.name, "/", contract.name>>],
               [types |-> [i \in 1..Len(names) |-> get_entity_name(names[i])],
                from |-> <<"../generated/schema">>]>>
        ELSE <<>>

stub_build_imports_placeholder(contract) ==
    <<[types |-> << <<contract.name, "Event", " as ", contract.name, "EventEvent">> >>,
       from |-> <<"../generated/", contract.name, "/", contract.name>>],
      [types |-> << <<contract.name, "Event">> >>,
       from |-> <<"../generated/schema">>]>>

stub_build_handler_for_event(event) ==
    [name |-> get_handler_name(event.name),
     event_name |-> <<event.name>>,
     event_type |-> <<event.name, "Event">>,
     entity_name |-> get_entity_name(event.name),
     params |-> ParamMappings(event)]

stub_build_handler_placeholder(contract) ==
    [name |-> <<"handle", contract.name, "Event">>,
     event_name |-> <<contract.name, "Event">>,
     event_type |-> <<contract.name, "Event", "Event">>,
     entity_name |-> <<contract.name, "Event">>,
     params |-> PlaceholderParams]

render_mapping_stub(contract, network, abi, complexity) ==
    LET events == IF Truthy(abi) THEN extract_events(abi.items) ELSE <<>>
    IN  [template |-> "mappings/mapping_stub.ts.j2",
         contract_name |-> contract.name,
         network |-> network,
         imports |-> IF events # <<>>
                     THEN stub_build_imports_for_events(contract, events)
                     ELSE stub_build_imports_placeholder(contract),
         handlers |-> IF events # <<>>
                      THEN [i \in 1..Len(events) |->
                               stub_build_handler_for_event(events[i])]
                      ELSE <<stub_build_handler_placeholder(contract)>>,
         call_handlers |-> IF complexity = "intermediate"
                              /\ Truthy(contract.call_handlers)
                           THEN CallHandlerContexts(contract.call_handlers.items)
                           ELSE <<>>,
         block_handler |-> IF complexity = "intermediate" /\ contract.block_handler
                           THEN build_block_handler_context(contract.name)
                           ELSE <<>>]

render_all_mappings_stub(cfg, map) ==
    DictOf([i \in 1..Len(cfg.contracts) |->
               [key |-> cfg.contracts[i].name,
                value |-> render_mapping_stub(cfg.contracts[i], cfg.network,
                              AbiGet(map, cfg.contracts[i].name), cfg.complexity)]])

StubMappingRaises(contract, complexity) ==
    /\ complexity = "intermediate"
    /\ Truthy(contract.call_handlers)
    /\ \E i \in 1..Len(contract.call_handlers.items) :
            RaisesIndexError(contract.call_handlers.items[i])

AllMappingsStubRaise(cfg) ==
    \E i \in 1..Len(cfg.contracts) : StubMappingRaises(cfg.contracts[i], cfg.complexity)

(***************************************************************************)
(* utils/fs_utils.py, generate/project_layout.py                           *)
(***************************************************************************)
\* A path is the sequence of its components below config.output_dir.
RootDir == <<>>
AbisDir == <<"abis">>
SrcDir == <<"src">>
MappingsDir == <<"src", "mappings">>
SubgraphYamlPath == <<"subgraph.yaml">>
SchemaPath == <<"schema.graphql">>
PackageJsonPath == <<"package.json">>
ReadmePath == <<"README.md">>
\* root_dir / "src" / "mappings" / f"{name}.ts"
MappingPath(name) == <<"src", "mappings", name, ".ts">>

\* path.parent; the file name <name>.ts is one component kept as its two parts
Parent(path) ==
    IF path[Len(path)] = ".ts" THEN SubSeq(path, 1, Len(path) - 2)
    ELSE SubSeq(path, 1, Len(path) - 1)

\* path.mkdir(parents=True, exist_ok=True) unless the path exists
ensure_dir(files, path) ==
    IF path \in DOMAIN files THEN files
    ELSE LET made == {SubSeq(path, 1, k) : k \in 0..Len(path)} \ DOMAIN files
         IN  [q \in DOMAIN files \cup made |-> IF q \in made THEN "dir" ELSE files[q]]

\* temp file in the parent directory, then os.rename onto the path
safe_write(files, path) ==
    LET ensured == ensure_dir(files, Parent(path))
    IN  [q \in DOMAIN ensured \cup {path} |->
            IF q = path THEN "generated" ELSE ensured[q]]

\* safe_write of every path of a set (the loop over mappings.items())
RECURSIVE SafeWriteAll(_, _)
SafeWriteAll(files, paths) ==
    IF paths = {} THEN files
    ELSE LET path == CHOOSE q \in paths : TRUE
         IN  SafeWriteAll(safe_write(files, path), paths \ {path})

prepare_project_structure(files) ==
    ensure_dir(ensure_dir(ensure_dir(ensure_dir(files, RootDir), AbisDir), SrcDir),
               MappingsDir)

(***************************************************************************)
(* abi/local.py, generate/orchestrator.py                                  *)
(***************************************************************************)
\* load_abi_from_file returns the ABI: the file holds a non-empty JSON array
\* (validate_abi rejects the empty one); otherwise it raises.
AbiFileLoads(file) == file.kind = "abi" /\ file.abi # <<>>

\* The names of the contracts, then of the templates (advanced tier), whose
\* ABI _load_abi_map looks for, each with its abi_path.
AbiOwners(cfg) ==
    [i \in 1..Len(cfg.contracts) |->
        [name |-> cfg.contracts[i].name, abi_path |-> cfg.contracts[i].abi_path]]
    \o [i \in 1..Len(TemplatesInUse(cfg)) |->
           [name |-> cfg.templates[i].name, abi_path |-> cfg.templates[i].abi_path]]

load_abi_map(cfg, files) ==
    LET loaded == SelectSeq(AbiOwners(cfg),
                            LAMBDA o : /\ files[o.abi_path].kind # "missing"
                                       /\ AbiFileLoads(files[o.abi_path]))
    IN  DictOf([i \in 1..Len(loaded) |->
                   [key |-> loaded[i].name, value |-> files[loaded[i].abi_path].abi]])

RenderAllMappings(cfg, map) ==
    IF cfg.mappings_mode = "auto" THEN render_all_mappings_auto(cfg, map)
    ELSE render_all_mappings_stub(cfg, map)

RenderAllMappingsRaise(cfg) ==
    IF cfg.mappings_mode = "auto" THEN AllMappingsAutoRaise(cfg)
    ELSE AllMappingsStubRaise(cfg)

(***************************************************************************)
(* config/model.py: to_dict and from_dict.  A dict is a function from its  *)
(* keys; a key the code leaves out is not in its domain.                   *)
(***************************************************************************)
ContractConfig_to_dict(c) ==
    LET keys == {"name", "address", "start_block", "abi_path", "index_events"}
                \cup (IF c.call_handlers.is_none THEN {} ELSE {"call_handlers"})
                \cup (IF c.block_handler THEN {"block_handler"} ELSE {})
    IN  [k \in keys |-> IF k = "call_handlers" THEN c.call_handlers.items ELSE c[k]]

\* data.get("call_handlers"): None when the key is absent
GetCallHandlers(data) ==
    IF "call_handlers" \in DOMAIN data THEN Some(data["call_handlers"]) ELSE NoneList

ContractConfig_from_dict(data) ==
    [name |-> data["name"],
     address |-> data["address"],
     start_block |-> data["start_block"],
     abi_path |-> data["abi_path"],
     index_events |-> DictGet(data, "index_events", TRUE),
     call_handlers |-> GetCallHandlers(data),
     block_handler |-> DictGet(data, "block_handler", FALSE)]

TemplateConfig_to_dict(t) ==
    LET keys == {"name", "abi_path", "event_handlers", "source_contract",
                 "source_event", "index_events"}
                \cup (IF Truthy(t.call_handlers) THEN {"call_handlers"} ELSE {})
                \cup (IF t.block_handler THEN {"block_handler"} ELSE {})
    IN  [k \in keys |-> IF k = "call_handlers" THEN t.call_handlers.items ELSE t[k]]

TemplateConfig_from_dict(data) ==
    [name |-> data["name"],
     abi_path |-> data["abi_path"],
     event_handlers |-> DictGet(data, "event_handlers", <<>>),
     source_contract |-> data["source_contract"],
     source_event |-> data["source_event"],
     index_events |-> DictGet(data, "index_events", TRUE),
     call_handlers |-> GetCallHandlers(data),
     block_handler |-> DictGet(data, "block_handler", FALSE)]

EntityRelationship_to_dict(r) ==
    LET keys == {"from_entity", "to_entity", "relation_type", "field_name"}
                \cup (IF r.derived_from \notin {PyNone, <<>>} THEN {"derived_from"}
                      ELSE {})
    IN  [k \in keys |-> r[k]]

EntityRelationship_from_dict(data) ==
    [from_entity |-> data["from_entity"],
     to_entity |-> data["to_entity"],
     relation_type |-> data["relation_type"],
     field_name |-> data["field_name"],
     derived_from |-> DictGet(data, "derived_from", PyNone)]

\* the config_version to_dict writes
DictVersion(c) ==
    IF c.complexity = "intermediate" /\ c.config_version < 2 THEN 2
    ELSE IF c.complexity = "advanced" /\ c.config_version < 3 THEN 3
    ELSE c.config_version

SubgraphConfig_to_dict(c) ==
    LET keys == {"config_version", "name", "network", "output_dir", "complexity",
                 "mappings_mode", "contracts"}
                \cup (IF c.templates # <<>> THEN {"templates"} ELSE {})
                \cup (IF c.entity_relationships # <<>> THEN {"entity_relationships"}
                      ELSE {})
    IN  [k \in keys |->
            CASE k = "config_version" -> DictVersion(c)
              [] k = "contracts" ->
                    [i \in 1..Len(c.contracts) |-> ContractConfig_to_dict(c.contracts[i])]
              [] k = "templates" ->
                    [i \in 1..Len(c.templates) |-> TemplateConfig_to_dict(c.templates[i])]
              [] k = "entity_relationships" ->
                    [i \in 1..Len(c.entity_relationships) |->
                        EntityRelationship_to_dict(c.entity_relationships[i])]
              [] OTHER -> c[k]]

SubgraphConfig_from_dict(data) ==
    LET cs == DictGet(data, "contracts", <<>>)
        ts == DictGet(data, "templates", <<>>)
        rs == DictGet(data, "entity_relationships", <<>>)
    IN  [name |-> data["name"],
         network |-> data["network"],
         output_dir |-> data["output_dir"],
         mappings_mode |-> data["mappings_mode"],
         contracts |-> [i \in 1..Len(cs) |-> ContractConfig_from_dict(cs[i])],
         config_version |-> DictGet(data, "config_version", 1),
         complexity |-> DictGet(data, "complexity", "basic"),
         templates |-> [i \in 1..Len(ts) |-> TemplateConfig_from_dict(ts[i])],
         entity_relationships |->
             [i \in 1..Len(rs) |-> EntityRelationship_from_dict(rs[i])]]

(***************************************************************************)
(* The configurations, ABI files and output directories the runs start     *)
(* from.                                                                   *)
(***************************************************************************)
ContractNames == {"Factory", "Token"}
TemplateNames == {"Pair", "Factory"}
AllNames == ContractNames \cup TemplateNames
ComplexityLevels == {"basic", "intermediate", "advanced"}

AbiPathOf(name) == <<name, ".json">>
AbiPaths == {AbiPathOf(n) : n \in AllNames}

\* "0x" and 40 times the digit c
Addr(c) == <<"0", "x">> \o [i \in 1..AddressHexLen |-> c]
ShortAddr == <<"0", "x", "a">>
Addresses == {Addr("a"), Addr("A"), Addr("b"), ShortAddr}

Contract(name, address, call_handlers, block_handler) ==
    [name |-> name, address |-> address, start_block |-> 0,
     abi_path |-> AbiPathOf(name), index_events |-> TRUE,
     call_handlers |-> call_handlers, block_handler |-> block_handler]

Template(name, source_contract, event_handlers, call_handlers, block_handler) ==
    [name |-> name, abi_path |-> AbiPathOf(name), event_handlers |-> event_handlers,
     source_contract |-> source_contract, source_event |-> "PairCreated",
     index_events |-> TRUE, call_handlers |-> call_handlers,
     block_handler |-> block_handler]

ConfigVersionOf(complexity) ==
    CASE complexity = "basic" -> 1 [] complexity = "intermediate" -> 2 [] OTHER -> 3

Config(contracts, templates, complexity, mappings_mode) ==
    [name |-> "my-subgraph", network |-> "ethereum", output_dir |-> "./output",
     mappings_mode |-> mappings_mode, contracts |-> contracts,
     config_version |-> ConfigVersionOf(complexity), complexity |-> complexity,
     templates |-> templates, entity_relationships |-> <<>>]

Relationship(from_entity, to_entity, relation_type) ==
    [from_entity |-> from_entity, to_entity |-> to_entity,
     relation_type |-> relation_type,
     field_name |-> <<"s", "w", "a", "p", "s">>,
     derived_from |-> IF relation_type = "one_to_many" THEN <<"p", "a", "i", "r">>
                      ELSE PyNone]

Relationships ==
    {Relationship(from, <<"Swap">>, type) :
        from \in {<<"PairCreated">>, <<"Swap">>, <<>>},
        type \in {"one_to_one", "one_to_many", "one_to_none"}}

\* Call-handler signatures: well formed, then each way of being malformed.
Sig_f == <<"f", "(", ")">>
Sig_g == <<"g", "(", "u", ")">>
Signatures ==
    {Sig_f, Sig_g,
     <<"f">>,               \* no parentheses
     <<"(", "u", ")">>,     \* no function name
     <<" ", "(", ")">>,     \* blank function name
     <<" ">>,               \* blank
     <<")", "f", "(">>}     \* parentheses in the wrong order

CallHandlerChoices ==
    {NoneList, Some(<<>>)}
    \cup {Some(sigs) : sigs \in SeqsUpTo(Signatures, 1, MaxCallHandlers)}

TemplateCallHandlerChoices ==
    {NoneList, Some(<<Sig_f>>), Some(<<<<"f">>>>), Some(<<<<"(", "u", ")">>>>)}

\* ABI entries.  A parameter with no "name" key has the name <<>>.
ParamNameAt(i) ==
    CASE i = 1 -> <<"t", "_", "o">> [] i = 2 -> <<>> [] OTHER -> <<"T", "o">>

ParamLists ==
    UNION {[1..n -> [type : {<<"address">>, <<"uint256">>}, indexed : BOOLEAN]]
              : n \in 0..MaxParams}

InputsOf(plist) ==
    [i \in 1..Len(plist) |->
        [name |-> ParamNameAt(i), type |-> plist[i].type, indexed |-> plist[i].indexed]]

EventEntry(name, inputs) == [type |-> "event", name |-> name, inputs |-> inputs]
FunctionEntry == [type |-> "function", name |-> "transfer", inputs |-> <<>>]
UnnamedEvent == EventEntry("", <<>>)
TransferEvent ==
    EventEntry("Transfer",
        <<[name |-> <<"t", "o">>, type |-> <<"address">>, indexed |-> TRUE]>>)
SwapEvent ==
    EventEntry("Swap",
        <<[name |-> <<"t", "o">>, type |-> <<"address">>, indexed |-> FALSE]>>)
SyncEvent == EventEntry("Sync", <<>>)
PairCreatedEvent ==
    EventEntry("PairCreated",
        <<[name |-> <<"t", "_", "o">>, type |-> <<"address">>, indexed |-> TRUE],
          [name |-> <<"p", "a", "i", "r">>, type |-> <<"address">>, indexed |-> FALSE]>>)

MissingFile == [kind |-> "missing", abi |-> <<>>]
InvalidFile == [kind |-> "invalid", abi |-> <<>>]
AbiFile(abi) == [kind |-> "abi", abi |-> abi]

ContractAbiFiles ==
    {MissingFile, InvalidFile, AbiFile(<<>>), AbiFile(<<FunctionEntry>>),
     AbiFile(<<UnnamedEvent>>)}
    \cup {AbiFile(<<EventEntry("PairCreated", InputsOf(pl))>>) : pl \in ParamLists}
    \cup {AbiFile(<<FunctionEntry, EventEntry("PairCreated", InputsOf(pl)),
                    TransferEvent>>) : pl \in ParamLists}

TemplateAbiFiles ==
    {MissingFile, InvalidFile, AbiFile(<<FunctionEntry>>), AbiFile(<<SwapEvent>>),
     AbiFile(<<TransferEvent>>), AbiFile(<<SyncEvent, SwapEvent>>),
     AbiFile(<<TransferEvent, UnnamedEvent>>)}

NoAbiFiles == [q \in AbiPaths |-> MissingFile]

\* The output directory before the run: absent (or holding only abis/ when
\* an ABI file is there), or left by an earlier generation.
FreshDir(files) ==
    IF \A q \in AbiPaths : files[q].kind = "missing" THEN <<>>
    ELSE ensure_dir(<<>>, AbisDir)

PreviousProject ==
    SafeWriteAll(<<>>, {SubgraphYamlPath, SchemaPath, PackageJsonPath, ReadmePath,
                        MappingPath("Factory"), MappingPath("Old")})

OldProjectDir(files) ==
    LET made == ensure_dir(PreviousProject, AbisDir)
    IN  [q \in DOMAIN made |-> IF made[q] = "generated" THEN "old" ELSE made[q]]

Start(cfg, files, dir) ==
    /\ config = cfg
    /\ abi_files = files
    /\ fs = dir
    /\ fs0 = dir
    /\ pc = "start"
    /\ validation = "none"
    /\ dry_run = FALSE
    /\ abi_map = <<>>
    /\ manifest = <<>>
    /\ schema = <<>>
    /\ mappings = <<>>
    /\ rendered = {}
    /\ error = "none"
    /\ call = [fn |-> "generate_subgraph_project"]
    /\ result = <<>>

\* Contract names and addresses vary.
InitNaming ==
    \E cs \in SeqsUpTo({Contract(n, a, NoneList, FALSE) :
                            n \in ContractNames, a \in Addresses}, 0, MaxContracts),
       cx \in ComplexityLevels :
        Start(Config(cs, <<>>, cx, "auto"), NoAbiFiles, FreshDir(NoAbiFiles))

PositionedContracts(names) ==
    [i \in 1..Len(names) |-> Contract(names[i], Addr(DigitChar(i)), NoneList, FALSE)]

\* Templates, tier, mappings mode and the state of the output directory vary.
InitTemplates ==
    \E names \in SeqsUpTo(ContractNames, 1, MaxContracts),
       ts \in SeqsUpTo({Template(n, sc, <<"Swap">>, NoneList, FALSE) :
                            n \in TemplateNames, sc \in ContractNames \cup {"Ghost"}},
                       0, MaxTemplates),
       cx \in ComplexityLevels,
       mode \in VALID_MAPPING_MODES,
       dir \in {FreshDir(NoAbiFiles), ensure_dir(<<>>, RootDir), OldProjectDir(NoAbiFiles)} :
        Start(Config(PositionedContracts(names), ts, cx, mode), NoAbiFiles, dir)

\* Call handlers and block handlers vary.
InitHandlers ==
    \E ch \in CallHandlerChoices, bh \in BOOLEAN,
       ts \in {<<>>} \cup {<<Template("Pair", "Factory", <<"Swap">>, tch, tbh)>> :
                              tch \in TemplateCallHandlerChoices, tbh \in BOOLEAN},
       cx \in ComplexityLevels,
       mode \in VALID_MAPPING_MODES :
        Start(Config(<<Contract("Factory", Addr("a"), ch, bh)>>, ts, cx, mode),
              NoAbiFiles, FreshDir(NoAbiFiles))

\* The ABI of a contract varies.
InitAbis ==
    \E file \in ContractAbiFiles,
       ts \in {<<>>, <<Template("Pair", "Factory", <<"Swap">>, NoneList, FALSE)>>},
       cx \in ComplexityLevels,
       mode \in VALID_MAPPING_MODES :
        LET files == [NoAbiFiles EXCEPT ![AbiPathOf("Factory")] = file]
        IN  Start(Config(<<Contract("Factory", Addr("a"), NoneList, FALSE)>>, ts, cx, mode),
                  files, FreshDir(files))

\* The ABI and the event_handlers of a template vary.
InitTemplateAbis ==
    \E file \in TemplateAbiFiles,
       factory \in {MissingFile, AbiFile(<<PairCreatedEvent>>)},
       hs \in {<<"Swap">>, <<"Swap", "Sync">>},
       cx \in ComplexityLevels,
       mode \in VALID_MAPPING_MODES :
        LET files == [NoAbiFiles EXCEPT ![AbiPathOf("Pair")] = file,
                                        ![AbiPathOf("Factory")] = factory]
        IN  Start(Config(<<Contract("Factory", Addr("a"), NoneList, FALSE)>>,
                         <<Template("Pair", "Factory", hs, NoneList, FALSE)>>, cx, mode),
                  files, FreshDir(files))

\* The entity relationships vary.
InitRelationships ==
    \E rs \in SeqsUpTo(Relationships, 1, MaxRelationships),
       ts \in {<<>>, <<Template("Pair", "Factory", <<"Swap">>, NoneList, FALSE)>>},
       pair \in {MissingFile, AbiFile(<<SwapEvent>>)},
       cx \in ComplexityLevels,
       mode \in VALID_MAPPING_MODES :
        LET files == [NoAbiFiles EXCEPT ![AbiPathOf("Pair")] = pair,
                                        ![AbiPathOf("Factory")] =
                                            AbiFile(<<PairCreatedEvent>>)]
            cfg == Config(<<Contract("Factory", Addr("a"), NoneList, FALSE)>>,
                          ts, cx, mode)
        IN  Start([cfg EXCEPT !.entity_relationships = rs], files, FreshDir(files))

\* Events and functions are overloaded, and contracts and templates share
\* event names.
TransferOverload ==
    EventEntry("Transfer",
        <<[name |-> <<"t", "o">>, type |-> <<"address">>, indexed |-> TRUE],
          [name |-> <<"x">>, type |-> <<"uint256">>, indexed |-> FALSE]>>)

InitOverloads ==
    \E factory \in {MissingFile, AbiFile(<<TransferEvent>>),
                     AbiFile(<<TransferEvent, TransferOverload>>), AbiFile(<<SwapEvent>>)},
       token \in {MissingFile, AbiFile(<<TransferEvent>>)},
       pair \in {MissingFile, AbiFile(<<SwapEvent>>)},
       ts \in {<<>>, <<Template("Pair", "Factory", <<"Swap">>, NoneList, FALSE)>>},
       ch \in {NoneList, Some(<<Sig_f, <<"f", "(", "u", ")">>>>)},
       cx \in ComplexityLevels,
       mode \in VALID_MAPPING_MODES :
        LET files == [NoAbiFiles EXCEPT ![AbiPathOf("Factory")] = factory,
                                        ![AbiPathOf("Token")] = token,
                                        ![AbiPathOf("Pair")] = pair]
        IN  Start(Config(<<Contract("Factory", Addr("a"), ch, FALSE),
                           Contract("Token", Addr("b"), NoneList, FALSE)>>, ts, cx, mode),
                  files, FreshDir(files))

\* ABI files that load_abi_from_file accepts (a JSON array of objects with a
\* "type") and whose event inputs are not what an ABI holds.
MalformedAbiFiles ==
    {AbiFile(<<EventEntry("Bad", <<[json |-> "string"]>>)>>),
     AbiFile(<<TransferEvent,
               EventEntry("Bad", <<[name |-> <<"t", "o">>, type |-> PyNone,
                                    indexed |-> FALSE]>>)>>)}

InitMalformedAbis ==
    \E factory \in MalformedAbiFiles \cup {MissingFile, AbiFile(<<TransferEvent>>)},
       pair \in MalformedAbiFiles \cup {MissingFile},
       cx \in ComplexityLevels,
       mode \in VALID_MAPPING_MODES :
        LET files == [NoAbiFiles EXCEPT ![AbiPathOf("Factory")] = factory,
                                        ![AbiPathOf("Pair")] = pair]
        IN  Start(Config(<<Contract("Factory", Addr("a"), NoneList, FALSE)>>,
                         <<Template("Pair", "Factory", <<"Swap">>, NoneList, FALSE)>>,
                         cx, mode),
                  files, FreshDir(files))

Init ==
    \/ InitNaming
    \/ InitTemplates
    \/ InitHandlers
    \/ InitAbis
    \/ InitTemplateAbis
    \/ InitRelationships
    \/ InitOverloads
    \/ InitMalformedAbis

(***************************************************************************)
(* The run: cli.run_from_args validates the loaded config and then         *)
(* generates; generate_subgraph_project is also called on its own.         *)
(***************************************************************************)
GenVars == <<abi_map, manifest, schema, mappings>>
CallVars == <<call, result>>

\* validate_config(config)
ValidateConfig ==
    /\ pc = "start"
    /\ validation' = validate_config(config)
    /\ pc' = IF validate_config(config) = "ok" THEN "validated" ELSE "rejected"
    /\ UNCHANGED <<CallVars, rendered, config, abi_files, fs, fs0, dry_run, GenVars, error>>

\* generate_subgraph_project, step 1: the project structure
PrepareStructure(dry) ==
    /\ pc \in {"start", "validated"}
    /\ dry_run' = dry
    /\ fs' = IF dry THEN fs ELSE prepare_project_structure(fs)
    /\ pc' = "load_abis"
    /\ UNCHANGED <<CallVars, rendered, config, abi_files, fs0, validation, GenVars, error>>

\* step 2: _load_abi_map
LoadAbiMap ==
    /\ pc = "load_abis"
    /\ abi_map' = load_abi_map(config, abi_files)
    /\ pc' = "manifest"
    /\ UNCHANGED <<CallVars, rendered, config, abi_files, fs, fs0, validation, dry_run, manifest, schema,
                   mappings, error>>

\* An unhandled exception ends the run.
Abort(exception) ==
    /\ error' = exception
    /\ pc' = "aborted"
    /\ UNCHANGED <<CallVars, rendered, config, abi_files, fs, fs0, validation, dry_run, GenVars>>

\* a write that does not look at dry_run
WriteOrLog_Always(paths) == fs' = SafeWriteAll(fs, paths)

\* safe_write, or _log_dry_run_file under dry_run
WriteOrLog(paths) == fs' = IF dry_run THEN fs ELSE SafeWriteAll(fs, paths)

\* step 3: subgraph.yaml
GenerateSubgraphYaml ==
    /\ pc = "manifest"
    /\ IF AbiMapRaises(abi_map) THEN Abort("AttributeError")
       ELSE IF SubgraphYamlRaises(config) THEN Abort("IndexError")
       ELSE /\ manifest' = <<render_subgraph_yaml(config, abi_map)>>
            /\ rendered' = rendered \cup {SubgraphYamlPath}
            /\ WriteOrLog({SubgraphYamlPath})
            /\ pc' = "schema"
            /\ UNCHANGED <<CallVars, config, abi_files, fs0, validation, dry_run, abi_map,
                           schema, mappings, error>>

\* step 4: schema.graphql
GenerateSchema ==
    /\ pc = "schema"
    /\ schema' = <<render_schema(config, abi_map)>>
    /\ rendered' = rendered \cup {SchemaPath}
    /\ WriteOrLog({SchemaPath})
    /\ pc' = "mappings"
    /\ UNCHANGED <<CallVars, config, abi_files, fs0, validation, dry_run, abi_map, manifest,
                   mappings, error>>

\* step 5: the mapping files
GenerateMappings ==
    /\ pc = "mappings"
    /\ IF RenderAllMappingsRaise(config) THEN Abort("IndexError")
       ELSE /\ mappings' = RenderAllMappings(config, abi_map)
            /\ rendered' = rendered \cup {MappingPath(n) :
                                n \in DOMAIN RenderAllMappings(config, abi_map)}
            /\ WriteOrLog({MappingPath(n) : n \in DOMAIN RenderAllMappings(config, abi_map)})
            /\ pc' = "package_json"
            /\ UNCHANGED <<CallVars, config, abi_files, fs0, validation, dry_run, abi_map,
                           manifest, schema, error>>

\* step 6: package.json
GeneratePackageJson ==
    /\ pc = "package_json"
    /\ rendered' = rendered \cup {PackageJsonPath}
    /\ WriteOrLog({PackageJsonPath})
    /\ pc' = "readme"
    /\ UNCHANGED <<CallVars, config, abi_files, fs0, validation, dry_run, GenVars, error>>

\* step 7: README.md
GenerateReadme ==
    /\ pc = "readme"
    /\ rendered' = rendered \cup {ReadmePath}
    /\ WriteOrLog({ReadmePath})
    /\ pc' = "done"
    /\ UNCHANGED <<CallVars, config, abi_files, fs0, validation, dry_run, GenVars, error>>

\* the keys of the dict of mappings in insertion order: contracts, then the
\* templates the chosen mode renders; a repeated key keeps its first place
RECURSIVE KeysInOrder(_)
KeysInOrder(names) ==
    IF names = <<>> THEN <<>>
    ELSE LET front == KeysInOrder(SubSeq(names, 1, Len(names) - 1))
             last == names[Len(names)]
         IN  IF last \in Range(front) THEN front ELSE Append(front, last)

MappingNamesInOrder(cfg) ==
    KeysInOrder([i \in 1..Len(cfg.contracts) |-> cfg.contracts[i].name]
                \o (IF cfg.mappings_mode = "auto"
                    THEN [i \in 1..Len(TemplatesInUse(cfg)) |-> cfg.templates[i].name]
                    ELSE <<>>))

\* the files a step writes, in the order of its safe_write calls
StagePaths(cfg, stage) ==
    CASE stage = "manifest" -> <<SubgraphYamlPath>>
      [] stage = "schema" -> <<SchemaPath>>
      [] stage = "mappings" ->
           [i \in 1..Len(MappingNamesInOrder(cfg)) |->
               MappingPath(MappingNamesInOrder(cfg)[i])]
      [] stage = "package_json" -> <<PackageJsonPath>>
      [] stage = "readme" -> <<ReadmePath>>

\* safe_write raises OSError in a step of a run that is not a dry run: the
\* step has rendered, the files before the failing one are written, the
\* temporary file is removed and the exception ends the run.
SafeWriteRaises ==
    /\ pc \in {"manifest", "schema", "mappings", "package_json", "readme"}
    /\ ~dry_run
    /\ ~(pc = "manifest" /\ (AbiMapRaises(abi_map) \/ SubgraphYamlRaises(config)))
    /\ ~(pc = "mappings" /\ RenderAllMappingsRaise(config))
    /\ \E k \in 1..Len(StagePaths(config, pc)) :
           fs' = SafeWriteAll(fs, {StagePaths(config, pc)[i] : i \in 1..(k - 1)})
    /\ rendered' = rendered \cup Range(StagePaths(config, pc))
    /\ error' = "OSError"
    /\ pc' = "aborted"
    /\ UNCHANGED <<CallVars, config, abi_files, fs0, validation, dry_run, GenVars>>

Next ==
    \/ ValidateConfig
    \/ \E dry \in BOOLEAN : PrepareStructure(dry)
    \/ LoadAbiMap
    \/ GenerateSubgraphYaml
    \/ GenerateSchema
    \/ GenerateMappings
    \/ GeneratePackageJson
    \/ GenerateReadme
    \/ SafeWriteRaises

Spec == Init /\ [][Next]_vars

(***************************************************************************)
(* Calls of single functions.  The variables of the generation run stay    *)
(* as they are.                                                            *)
(***************************************************************************)
RunVars == <<config, abi_files, fs, fs0, validation, dry_run, abi_map, manifest,
             schema, mappings, rendered>>

\* fn is about to be applied to arg
CallingIn(fn, arg, files) ==
    /\ config = <<>>
    /\ abi_files = <<>>
    /\ fs = files
    /\ fs0 = files
    /\ pc = "call"
    /\ validation = "none"
    /\ dry_run = FALSE
    /\ abi_map = <<>>
    /\ manifest = <<>>
    /\ schema = <<>>
    /\ mappings = <<>>
    /\ rendered = {}
    /\ error = "none"
    /\ call = [fn |-> fn, arg |-> arg]
    /\ result = <<>>

Calling(fn, arg) == CallingIn(fn, arg, <<>>)

\* Configs with every optional field absent, empty and set.
OptionalHandlers == {NoneList, Some(<<>>), Some(<<Sig_f>>)}

RoundTripContracts ==
    {<<>>} \cup {<<Contract("Factory", Addr("a"), ch, bh)>> :
                    ch \in OptionalHandlers, bh \in BOOLEAN}

RoundTripTemplates ==
    {<<>>} \cup {<<Template("Pair", "Factory", <<"Swap">>, ch, bh)>> :
                    ch \in OptionalHandlers, bh \in BOOLEAN}

RoundTripRelationships ==
    {<<>>} \cup {<<[Relationship(<<"PairCreated">>, <<"Swap">>, "one_to_one")
                      EXCEPT !.derived_from = df]>> :
                    df \in {PyNone, <<>>, <<"p", "a", "i", "r">>}}

RoundTripConfigs ==
    {[Config(cs, ts, cx, "auto") EXCEPT !.config_version = v,
                                        !.entity_relationships = rs] :
        cs \in RoundTripContracts, ts \in RoundTripTemplates,
        rs \in RoundTripRelationships, cx \in ComplexityLevels,
        v \in SUPPORTED_CONFIG_VERSIONS}

InitRoundTrip == \E c \in RoundTripConfigs : Calling("to_dict", c)

\* c.to_dict()
ToDict ==
    /\ pc = "call"
    /\ call.fn = "to_dict"
    /\ result' = SubgraphConfig_to_dict(call.arg)
    /\ pc' = "dict"
    /\ UNCHANGED <<RunVars, error, call>>

\* SubgraphConfig.from_dict(data)
FromDict ==
    /\ pc = "dict"
    /\ result' = SubgraphConfig_from_dict(result)
    /\ pc' = "returned"
    /\ UNCHANGED <<RunVars, error, call>>

NextRoundTrip ==
    \/ ToDict
    \/ FromDict

SpecRoundTrip == InitRoundTrip /\ [][NextRoundTrip]_vars

\* ABI entries, well formed and malformed in each way.
AddressInput(indexed) ==
    [name |-> <<"t", "o">>, type |-> <<"address">>, indexed |-> indexed]

AbiEntries ==
    {FunctionEntry,
     [type |-> "event"],
     [type |-> "event", name |-> ""],
     [type |-> "event", name |-> "", inputs |-> <<[json |-> "string"]>>],
     [type |-> "event", name |-> "Pause"],
     EventEntry("Transfer", <<AddressInput(TRUE), [type |-> <<"uint256", "[]">>]>>),
     EventEntry("Swap", <<AddressInput(FALSE), AddressInput(TRUE)>>),
     EventEntry("Sync", <<[name |-> <<"x">>, indexed |-> TRUE]>>),
     EventEntry("Bad", <<AddressInput(TRUE), [json |-> "string"]>>),
     EventEntry("Null", <<[name |-> <<"x">>, type |-> PyNone]>>)}

SignatureInputs ==
    UNION {[1..n -> {[type |-> <<"address">>, indexed |-> TRUE],
                     [type |-> <<"address">>, indexed |-> FALSE],
                     [type |-> <<"uint256", "[]">>],
                     [name |-> <<"x">>]}] : n \in 0..MaxParams}

SolidityTypes ==
    {<<>>} \cup {<<base>> \o suffixes :
                    base \in {"address", "uint256", "uint8", "bool", "foo"},
                    suffixes \in SeqsUpTo(ArraySuffixes, 0, MaxArrayDepth)}

ParamNames == SeqsUpTo({"a", "B", "_"}, 0, MaxNameLen)

InitAbi ==
    \/ \E abi \in SeqsUpTo(AbiEntries, 0, MaxEntries) : Calling("extract_events", abi)
    \/ \E name \in {"Transfer", "Pause"}, inputs \in SignatureInputs :
           Calling("build_event_signature", [event_name |-> name, inputs |-> inputs])
    \/ \E type \in SolidityTypes : Calling("solidity_type_to_graph", type)
    \/ \E name \in ParamNames : Calling("to_camel_case", name)

\* extract_events(abi)
ExtractEvents ==
    /\ pc = "call"
    /\ call.fn = "extract_events"
    /\ IF ExtractEventsRaises(call.arg)
       THEN /\ error' = "AttributeError"
            /\ pc' = "raised"
            /\ UNCHANGED result
       ELSE /\ result' = extract_events(call.arg)
            /\ pc' = "returned"
            /\ UNCHANGED error
    /\ UNCHANGED <<RunVars, call>>

\* build_event_signature(event_name, inputs)
BuildEventSignature ==
    /\ pc = "call"
    /\ call.fn = "build_event_signature"
    /\ result' = build_event_signature(call.arg.event_name, call.arg.inputs)
    /\ pc' = "returned"
    /\ UNCHANGED <<RunVars, error, call>>

\* solidity_type_to_graph applied to T, T + "[]" and T + "[3]"
SolidityTypeToGraph ==
    /\ pc = "call"
    /\ call.fn = "solidity_type_to_graph"
    /\ result' = [plain |-> solidity_type_to_graph(call.arg),
                  dynamic |-> solidity_type_to_graph(Append(call.arg, "[]")),
                  fixed |-> solidity_type_to_graph(Append(call.arg, "[3]"))]
    /\ pc' = "returned"
    /\ UNCHANGED <<RunVars, error, call>>

\* to_camel_case(name)
ToCamelCase ==
    /\ pc = "call"
    /\ call.fn = "to_camel_case"
    /\ result' = to_camel_case(call.arg)
    /\ pc' = "returned"
    /\ UNCHANGED <<RunVars, error, call>>

NextAbi ==
    \/ ExtractEvents
    \/ BuildEventSignature
    \/ SolidityTypeToGraph
    \/ ToCamelCase

SpecAbi == InitAbi /\ [][NextAbi]_vars

(***************************************************************************)
(* utils/fs_utils.py: safe_write step by step.  Files map a path to what   *)
(* it holds: the chunks written to a file so far, or <<"dir">>.            *)
(***************************************************************************)
TargetDir == <<"out">>
TargetPath == <<"out", "schema.graphql">>
\* tempfile.mkstemp(dir=path.parent, prefix=f".{path.name}.", suffix=".tmp")
TempPath == <<"out", ".schema.graphql.", ".tmp">>

Contents == SeqsUpTo({"a", "b"}, 0, MaxChunks)

\* the directory before the call: absent, empty, or holding the target
DirsBefore ==
    {<<>>, [q \in {TargetDir} |-> <<"dir">>]}
    \cup {[q \in {TargetDir, TargetPath} |-> IF q = TargetDir THEN <<"dir">> ELSE old] :
            old \in {<<>>, <<"o">>, <<"a", "o">>}}

InitWrite ==
    \E before \in DirsBefore, content \in Contents :
        CallingIn("safe_write", [path |-> TargetPath, content |-> content], before)

\* f.write(content) goes to the temporary file
WriteDestination_Target(temp_path, path) == path

WriteDestination(temp_path, path) == temp_path

WriteVars == <<config, abi_files, fs0, validation, dry_run, abi_map, manifest, schema,
               mappings, rendered, call>>

\* ensure_dir(path.parent)
WriteEnsureDir ==
    /\ pc = "call"
    /\ call.fn = "safe_write"
    /\ fs' = [q \in DOMAIN fs \cup {TargetDir} |->
                 IF q \in DOMAIN fs THEN fs[q] ELSE <<"dir">>]
    /\ pc' = "mkstemp"
    /\ UNCHANGED <<WriteVars, error, result>>

\* tempfile.mkstemp: an empty file next to the target
WriteMkstemp ==
    /\ pc = "mkstemp"
    /\ fs' = [q \in DOMAIN fs \cup {TempPath} |->
                 IF q = TempPath THEN <<>> ELSE fs[q]]
    /\ result' = <<>>
    /\ pc' = "write"
    /\ UNCHANGED <<WriteVars, error>>

\* f.write(content) reaches the file opened with "w" chunk by chunk; result
\* is what has been written so far
WriteChunk ==
    /\ pc = "write"
    /\ Len(result) < Len(call.arg.content)
    /\ LET dest == WriteDestination(TempPath, call.arg.path)
           chunk == call.arg.content[Len(result) + 1]
       IN  fs' = [q \in DOMAIN fs \cup {dest} |->
                     IF q # dest THEN fs[q]
                     ELSE IF result = <<>> THEN <<chunk>>
                     ELSE Append(fs[q], chunk)]
    /\ result' = Append(result, call.arg.content[Len(result) + 1])
    /\ UNCHANGED <<WriteVars, error, pc>>

\* the with block closes the file
WriteClose ==
    /\ pc = "write"
    /\ result = call.arg.content
    /\ pc' = "rename"
    /\ UNCHANGED <<WriteVars, fs, error, result>>

\* os.rename(temp_path, path)
WriteRename ==
    /\ pc = "rename"
    /\ fs' = [q \in (DOMAIN fs \cup {call.arg.path}) \ {TempPath} |->
                 IF q = call.arg.path THEN fs[TempPath] ELSE fs[q]]
    /\ pc' = "returned"
    /\ UNCHANGED <<WriteVars, error, result>>

\* a step raises OSError: outside the try block it propagates at once,
\* inside it the except clause runs
WriteRaises ==
    /\ call.fn = "safe_write"
    /\ pc \in {"call", "mkstemp", "write", "rename"}
    /\ error' = "OSError"
    /\ pc' = IF pc \in {"write", "rename"} THEN "except" ELSE "raised"
    /\ UNCHANGED <<WriteVars, fs, result>>

\* except Exception: unlink the temporary file if it exists, re-raise
WriteCleanup ==
    /\ pc = "except"
    /\ fs' = [q \in DOMAIN fs \ {TempPath} |-> fs[q]]
    /\ pc' = "raised"
    /\ UNCHANGED <<WriteVars, error, result>>

\* the process is stopped between two steps
WriteProcessStops ==
    /\ call.fn = "safe_write"
    /\ pc \in {"mkstemp", "write", "rename", "except"}
    /\ pc' = "stopped"
    /\ UNCHANGED <<WriteVars, fs, error, result>>

NextWrite ==
    \/ WriteEnsureDir
    \/ WriteMkstemp
    \/ WriteChunk
    \/ WriteClose
    \/ WriteRename
    \/ WriteRaises
    \/ WriteCleanup
    \/ WriteProcessStops

SpecWrite == InitWrite /\ [][NextWrite]_vars

(***************************************************************************)
(* main.py, cli.py: the command-line entry point                           *)
(***************************************************************************)
\* argv: which flags are given, and how an argv argparse rejects is malformed
Argvs ==
    [config : BOOLEAN, generate : BOOLEAN, dry_run : BOOLEAN, version : BOOLEAN,
     malformed : {"no", "unrecognized arguments", "expected one argument", "--help"}]

\* class hierarchy of errors.py and of the built-in exceptions
SubgraphWizardErrors == {"SubgraphWizardError", "ValidationError", "AbiFetchError"}

OtherExceptions == {"ValueError", "EOFError", "IndexError"}

Raisable == SubgraphWizardErrors \cup OtherExceptions \cup {"KeyboardInterrupt", "none"}

\* os.getenv("DEBUG", "").lower()
DebugValues == {"", "1", "true", "yes", "0"}

InitCli ==
    \E argv \in Argvs, raises \in Raisable, debug \in DebugValues :
        Calling("run", [argv |-> argv, raises |-> raises, DEBUG |-> debug])

\* parser.parse_args(argv): argparse exits with status 2 on an argv it
\* rejects and with status 0 after printing the help; SystemExit is not an
\* Exception, so no except clause of run catches it.
ParseArgs ==
    /\ pc = "call"
    /\ call.fn = "run"
    /\ IF call.arg.argv.malformed = "no"
       THEN /\ pc' = "parsed"
            /\ UNCHANGED <<error, result>>
       ELSE /\ pc' = "exited"
            /\ error' = IF call.arg.argv.malformed = "--help"
                        THEN "SystemExit(0)" ELSE "SystemExit(2)"
            /\ result' = [exit_code |-> IF call.arg.argv.malformed = "--help"
                                        THEN 0 ELSE 2,
                          logged |-> "usage"]
    /\ UNCHANGED <<RunVars, call>>

\* run_from_args(args): --version, and --generate without --config, return
\* before anything can fail; otherwise the run raises what the
\* loading, validation, generation or wizard raises, if anything.
RunFromArgs ==
    /\ pc = "parsed"
    /\ LET args == call.arg.argv
       IN  error' = IF args.version \/ (args.generate /\ ~args.config)
                    THEN "none"
                    ELSE call.arg.raises
    /\ pc' = "ran"
    /\ UNCHANGED <<RunVars, call, result>>

\* no exception: run returns
RunReturns ==
    /\ pc = "ran"
    /\ error = "none"
    /\ result' = [exit_code |-> 0, logged |-> "none"]
    /\ pc' = "exited"
    /\ UNCHANGED <<RunVars, call, error>>

\* except SubgraphWizardError
ExceptSubgraphWizardError ==
    /\ pc = "ran"
    /\ error \in SubgraphWizardErrors
    /\ result' = [exit_code |-> 1, logged |-> "Error"]
    /\ pc' = "exited"
    /\ UNCHANGED <<RunVars, call, error>>

\* except KeyboardInterrupt
ExceptKeyboardInterrupt ==
    /\ pc = "ran"
    /\ error = "KeyboardInterrupt"
    /\ result' = [exit_code |-> 130, logged |-> "cancelled"]
    /\ pc' = "exited"
    /\ UNCHANGED <<RunVars, call, error>>

\* except Exception: the traceback only if DEBUG is 1, true or yes
ExceptException ==
    /\ pc = "ran"
    /\ error \in OtherExceptions
    /\ result' = [exit_code |-> 1,
                  logged |-> IF call.arg.DEBUG \in {"1", "true", "yes"}
                             THEN "traceback" ELSE "Unexpected error"]
    /\ pc' = "exited"
    /\ UNCHANGED <<RunVars, call, error>>

NextCli ==
    \/ ParseArgs
    \/ RunFromArgs
    \/ RunReturns
    \/ ExceptSubgraphWizardError
    \/ ExceptKeyboardInterrupt
    \/ ExceptException

SpecCli == InitCli /\ [][NextCli]_vars

(***************************************************************************)
(* abi/etherscan.py: fetch_abi_from_explorer                               *)
(***************************************************************************)
\* Text is a sequence of pieces: literals of the code and values of inputs.
NETWORK_API_KEY_ENV_VARS(network) ==
    CASE network = "ethereum" -> "ETHERSCAN_API_KEY"
      [] network = "optimism" -> "OPTIMISM_ETHERSCAN_API_KEY"
      [] network = "arbitrum" -> "ARBITRUM_ETHERSCAN_API_KEY"
      [] OTHER -> ""

ExplorerHost(network) ==
    CASE network = "ethereum" -> "api.etherscan.io"
      [] network = "optimism" -> "api-optimistic.etherscan.io"
      [] network = "arbitrum" -> "api.arbiscan.io"

\* environ maps variable names to values; an unset or empty variable is None
get_api_key_for_network(network, environ) ==
    IF NETWORK_API_KEY_ENV_VARS(network) = "" THEN "None"
    ELSE IF DictGet(environ, NETWORK_API_KEY_ENV_VARS(network), "") = "" THEN "None"
    ELSE environ[NETWORK_API_KEY_ENV_VARS(network)]

build_explorer_url(network, address, api_key) ==
    <<"https://", ExplorerHost(network), "/api", "?module=contract", "&action=getabi",
      "&address=", address>>
    \o (IF api_key # "None" THEN <<"&apikey=", api_key>> ELSE <<>>)

UnsupportedNetworkMessage(network) ==
    <<"Unsupported network: '", network, "'. ", "Supported networks: ",
      "ethereum, optimism, arbitrum">>

\* the message with the failed request's URL appended
TransportMessage_WithUrl(network, url, failure) ==
    <<"Failed to connect to ", network, " explorer: ">> \o url

\* the except clauses of requests.get / raise_for_status
TransportMessage(network, url, failure) ==
    CASE failure = "Timeout" ->
           <<"Request timed out while fetching ABI from ", network, " explorer. ",
             "Please check your network connection and try again.">>
      [] failure = "ConnectionError" ->
           <<"Failed to connect to ", network, " explorer. ",
             "Please check your network connection and try again.">>
      [] failure = "HTTPError" ->
           <<"Failed to fetch ABI from ", network, " explorer (HTTP error). ",
             "The explorer service may be temporarily unavailable. ",
             "Please try again later or use a local ABI file.">>
      [] OTHER ->
           <<"Failed to fetch ABI from ", network, " explorer. ",
             "An unexpected network error occurred. ",
             "Please try again or use a local ABI file.">>

\* The response body is "not json" or the JSON object [status, phrases,
\* abi]: phrases are the phrases str(result).lower() contains and abi is
\* what json.loads(result) gives.
ResultPhrases ==
    {"contract source code not verified", "invalid api key", "rate limit",
     "invalid address"}

\* the message of the AbiFetchError a response leads to, <<>> if none
ResponseMessage(network, address, body) ==
    IF body = [json |-> "not json"]
    THEN <<"Invalid response from ", network, " explorer. ",
           "The service may be experiencing issues. ",
           "Please try again later or use a local ABI file.">>
    ELSE IF body.status # "1"
    THEN IF "contract source code not verified" \in body.phrases
         THEN <<"Contract at ", address, " is not verified on ", network, " explorer. ",
                "Please verify the contract first, or provide the ABI manually via local file or paste.">>
         ELSE IF "invalid api key" \in body.phrases
         THEN <<"Invalid API key for ", network, " explorer. ",
                "Please check your API key configuration in the .env file.">>
         ELSE IF "rate limit" \in body.phrases
         THEN <<"API rate limit exceeded for ", network, " explorer. ",
                "Please wait a moment and try again, or consider using an API key for higher limits.">>
         ELSE IF "invalid address" \in body.phrases
         THEN <<"Invalid contract address: ", address, ". ",
                "Please check the address format and try again.">>
         ELSE <<"Failed to fetch ABI from ", network, " explorer. ",
                "Contract may not be verified, or API rate limit exceeded. ",
                "Please check your API key or try using a local ABI file.">>
    ELSE IF body.abi = "not json"
    THEN <<"Invalid ABI format received from ", network, " explorer. ",
           "The returned data could not be parsed as a valid ABI. ",
           "Please try using a local ABI file instead.">>
    ELSE IF body.abi # "list"
    THEN <<"Invalid ABI format received from ", network, " explorer. ",
           "Expected a list of ABI entries. ",
           "Please try using a local ABI file instead.">>
    ELSE <<>>

FetchNetworks == SUPPORTED_NETWORKS \cup {"polygon"}

FetchAddresses == {"0x1f98431c8ad98523631ae4a59f267346ea31f984", "0xBad"}

ApiKeys == {"", "my-api-key", "super-secret-key-12345"}

\* the environment sets at most one of the key variables
Environs ==
    {<<>>} \cup {[v \in {name} |-> key] :
                   name \in {"ETHERSCAN_API_KEY", "OPTIMISM_ETHERSCAN_API_KEY",
                              "ARBITRUM_ETHERSCAN_API_KEY"},
                   key \in ApiKeys}

TransportOutcomes == {"ok", "Timeout", "ConnectionError", "HTTPError", "RequestException"}

ResponseBodies ==
    {[json |-> "not json"]}
    \cup [status : {"1", "0"}, phrases : SUBSET ResultPhrases,
          abi : {"list", "object", "not json"}]

InitFetch ==
    \E network \in FetchNetworks, address \in FetchAddresses, environ \in Environs,
       transport \in TransportOutcomes, body \in ResponseBodies :
        Calling("fetch_abi_from_explorer",
                [network |-> network, address |-> address, environ |-> environ,
                 transport |-> transport, body |-> body])

\* if network not in SUPPORTED_NETWORKS: raise; then the key and the URL
FetchBuildUrl ==
    /\ pc = "call"
    /\ call.fn = "fetch_abi_from_explorer"
    /\ IF call.arg.network \notin SUPPORTED_NETWORKS
       THEN /\ error' = "AbiFetchError"
            /\ result' = [message |-> UnsupportedNetworkMessage(call.arg.network)]
            /\ pc' = "raised"
       ELSE /\ result' =
                 [api_key |-> get_api_key_for_network(call.arg.network, call.arg.environ),
                  url |-> build_explorer_url(
                              call.arg.network, call.arg.address,
                              get_api_key_for_network(call.arg.network, call.arg.environ))]
            /\ pc' = "request"
            /\ UNCHANGED error
    /\ UNCHANGED <<RunVars, call>>

\* requests.get(url, timeout=REQUEST_TIMEOUT); response.raise_for_status()
FetchRequest ==
    /\ pc = "request"
    /\ IF call.arg.transport # "ok"
       THEN /\ error' = "AbiFetchError"
            /\ result' = [api_key |-> result.api_key, url |-> result.url,
                          message |-> TransportMessage(call.arg.network, result.url,
                                                       call.arg.transport)]
            /\ pc' = "raised"
       ELSE /\ pc' = "response"
            /\ UNCHANGED <<error, result>>
    /\ UNCHANGED <<RunVars, call>>

\* response.json(), the status check, json.loads(result), the list check
FetchParse ==
    /\ pc = "response"
    /\ LET message == ResponseMessage(call.arg.network, call.arg.address, call.arg.body)
       IN  IF message # <<>>
           THEN /\ error' = "AbiFetchError"
                /\ result' = [api_key |-> result.api_key, url |-> result.url,
                              message |-> message]
                /\ pc' = "raised"
           ELSE /\ result' = [api_key |-> result.api_key, url |-> result.url,
                              abi |-> "list"]
                /\ pc' = "returned"
                /\ UNCHANGED error
    /\ UNCHANGED <<RunVars, call>>

NextFetch ==
    \/ FetchBuildUrl
    \/ FetchRequest
    \/ FetchParse

SpecFetch == InitFetch /\ [][NextFetch]_vars

(***************************************************************************)
(* Properties                                                              *)
(***************************************************************************)
(* cli.py: run_from_args, from the parsed flags to the end of the          *)
(* generation it starts; interactive_wizard.py: run_wizard as one step.    *)
(***************************************************************************)
(* interactive_wizard.py: the contract-collection loop of run_wizard.      *)
(* result holds the locals contracts, existing_names, existing_addresses   *)
(* and the name and address being collected.  Names are texts here.        *)
(***************************************************************************)
Letters == {"F", "T", "a"}
NameAnswers == SeqsUpTo(Letters \cup {"1", "_"}, 0, 2)
AddressAnswers == Addresses

\* ^[a-zA-Z][a-zA-Z0-9_]*$
validate_contract_name(name) ==
    /\ name # <<>>
    /\ name[1] \in Letters
    /\ \A i \in 2..Len(name) : name[i] \in Letters \cup {"1", "_"}

\* ^0x[a-fA-F0-9]{40}$
validate_contract_address(address) == ADDRESS_PATTERN(address)

\* existing_addresses.add(contract.address) would keep the case as typed
ReserveAddress_AsTyped(existing_addresses, address) == existing_addresses \cup {address}

\* existing_addresses.add(contract.address.lower())
ReserveAddress(existing_addresses, address) ==
    existing_addresses \cup {LowerStr(address)}

InWizard == call.fn = "run_wizard"

WizardVars == <<call, abi_files, fs, fs0, validation, dry_run, GenVars, rendered>>

\* contracts = [], abis = {}, existing_names = set(), existing_addresses = set()
WizardStart ==
    /\ InWizard /\ pc = "call"
    /\ result' = [contracts |-> <<>>, existing_names |-> {}, existing_addresses |-> {},
                  name |-> <<>>, address |-> <<>>]
    /\ pc' = "ask_name"
    /\ UNCHANGED <<WizardVars, config, error>>

\* _collect_contract: the name is asked again while the validator rejects
\* it or it is in existing_names
WizardAskName ==
    /\ InWizard /\ pc = "ask_name"
    /\ \E name \in NameAnswers :
         IF validate_contract_name(name) /\ name \notin result.existing_names
         THEN result' = [result EXCEPT !.name = name] /\ pc' = "ask_address"
         ELSE UNCHANGED <<result, pc>>
    /\ UNCHANGED <<WizardVars, config, error>>

\* _collect_contract: the address is asked again while the validator
\* rejects it or its lowercase form is in existing_addresses
WizardAskAddress ==
    /\ InWizard /\ pc = "ask_address"
    /\ \E address \in AddressAnswers :
         IF /\ validate_contract_address(address)
            /\ LowerStr(address) \notin result.existing_addresses
         THEN result' = [result EXCEPT !.address = address] /\ pc' = "get_abi"
         ELSE UNCHANGED <<result, pc>>
    /\ UNCHANGED <<WizardVars, config, error>>

\* abi = _get_abi_for_contract(...): on success the contract is stored and
\* its name and address are reserved; SubgraphWizardError leads to the
\* question about skipping; any other exception leaves run_wizard
WizardGetAbi ==
    /\ InWizard /\ pc = "get_abi"
    /\ \E outcome \in {"ok", "SubgraphWizardError", "KeyboardInterrupt"} :
         CASE outcome = "ok" ->
                /\ result' = [result EXCEPT
                       !.contracts = Append(@, [name |-> result.name,
                                                address |-> result.address]),
                       !.existing_names = @ \cup {result.name},
                       !.existing_addresses = ReserveAddress(@, result.address)]
                /\ pc' = "ask_another"
                /\ error' = error
           [] outcome = "SubgraphWizardError" ->
                /\ pc' = "ask_skip"
                /\ error' = outcome
                /\ result' = result
           [] OTHER ->
                /\ pc' = "raised"
                /\ error' = outcome
                /\ result' = result
    /\ UNCHANGED <<WizardVars, config>>

\* ask_yes_no("Skip this contract and continue?"): continue, or raise
WizardAskSkip ==
    /\ InWizard /\ pc = "ask_skip"
    /\ \E skip \in BOOLEAN :
         IF skip THEN pc' = "ask_name" /\ error' = "none"
         ELSE pc' = "raised" /\ error' = error
    /\ UNCHANGED <<WizardVars, config, result>>

\* ask_yes_no("Add another contract?"): the loop goes on, or breaks and the
\* config is built from contracts
WizardAskAnother ==
    /\ InWizard /\ pc = "ask_another"
    /\ \E another \in BOOLEAN :
         IF another
         THEN /\ Len(result.contracts) < MaxContracts
              /\ pc' = "ask_name"
              /\ config' = config
         ELSE /\ pc' = "returned"
              /\ config' = [contracts |-> result.contracts]
    /\ UNCHANGED <<WizardVars, result, error>>

NextWizard ==
    \/ WizardStart
    \/ WizardAskName
    \/ WizardAskAddress
    \/ WizardGetAbi
    \/ WizardAskSkip
    \/ WizardAskAnother

SpecWizard == Calling("run_wizard", <<>>) /\ [][NextWizard]_vars

(***************************************************************************)
\* args.version, args.config, args.generate, args.dry_run
RunArgs == [version : BOOLEAN, config : BOOLEAN, generate : BOOLEAN, dry_run : BOOLEAN]

\* Configs validate_config accepts.
AcceptableConfigs ==
    {Config(<<Contract("Factory", Addr("a"), NoneList, FALSE)>>, <<>>, "basic", mode) :
        mode \in VALID_MAPPING_MODES}
    \cup {Config(<<Contract("Factory", Addr("a"), Some(<<Sig_f>>), TRUE),
                   Contract("Token", Addr("b"), NoneList, FALSE)>>, <<>>,
                 "intermediate", "auto"),
          Config(<<Contract("Factory", Addr("a"), NoneList, FALSE)>>,
                 <<Template("Pair", "Factory", <<"Swap">>, NoneList, FALSE)>>,
                 "advanced", "auto")}

\* Configs a JSON file can hold that validate_config rejects.
RejectableConfigs ==
    {Config(<<>>, <<>>, "basic", "auto"),
     Config(<<Contract("Factory", ShortAddr, NoneList, FALSE)>>, <<>>, "basic", "stub"),
     Config(<<Contract("Factory", Addr("a"), NoneList, FALSE),
              Contract("Token", Addr("A"), NoneList, FALSE)>>, <<>>, "basic", "auto"),
     Config(<<Contract("Factory", Addr("a"), NoneList, FALSE)>>,
            <<Template("Pair", "Ghost", <<"Swap">>, NoneList, FALSE)>>,
            "advanced", "auto")}

\* The ABI files under abis/: those a --config run finds, or those the
\* wizard has collected (one for every contract it accepted).
RunAbiFiles(cfg, collected) ==
    [q \in AbiPaths |->
        IF \E i \in 1..Len(cfg.contracts) : cfg.contracts[i].abi_path = q
        THEN (IF collected THEN AbiFile(<<TransferEvent>>) ELSE MissingFile)
        ELSE IF \E i \in 1..Len(cfg.templates) : cfg.templates[i].abi_path = q
        THEN (IF collected THEN AbiFile(<<SwapEvent>>) ELSE MissingFile)
        ELSE MissingFile]

\* load_config raises ValidationError on a missing or malformed file.
\* The wizard builds its config from answers its own validators accepted.
InitRun ==
    \E args \in RunArgs,
       cfg \in AcceptableConfigs \cup RejectableConfigs,
       collected \in BOOLEAN,
       load \in {"ok", "ValidationError"},
       generate_now \in BOOLEAN,
       dir \in {<<>>, OldProjectDir(NoAbiFiles)} :
        /\ args.config \/ (cfg \in AcceptableConfigs /\ collected /\ load = "ok")
        /\ (args.config /\ ~args.version) \/ load = "ok"
        /\ (~args.config /\ ~args.generate /\ ~args.version) \/ generate_now
        /\ CallingIn("run_from_args",
                     [args |-> args, config |-> cfg,
                      abi_files |-> RunAbiFiles(cfg, collected), load |-> load,
                      generate_now |-> generate_now],
                     dir)

InRun == call.fn = "run_from_args"

\* validate_config returns None or raises ValidationError; a caller that
\* went on regardless would treat every outcome as a success
ValidationRaises_Never(outcome) == FALSE

ValidationRaises(outcome) == outcome # "ok"

RunFrame == <<result, rendered, dry_run, GenVars>>

\* if args.version: print and return; otherwise the mode is chosen
RunDispatch ==
    /\ InRun /\ pc = "call"
    /\ pc' = IF call.arg.args.version THEN "returned"
             ELSE IF call.arg.args.config THEN "load_config"
             ELSE IF call.arg.args.generate THEN "returned"
             ELSE "wizard"
    /\ UNCHANGED <<call, config, abi_files, fs, fs0, validation, error, RunFrame>>

\* config = load_config(config_path)
RunLoadConfig ==
    /\ InRun /\ pc = "load_config"
    /\ IF call.arg.load = "ok"
       THEN /\ config' = call.arg.config
            /\ abi_files' = call.arg.abi_files
            /\ pc' = "validate"
            /\ error' = error
       ELSE /\ error' = call.arg.load
            /\ pc' = "raised"
            /\ UNCHANGED <<config, abi_files>>
    /\ UNCHANGED <<call, fs, fs0, validation, RunFrame>>

\* validate_config(config), then generation only under --generate
RunValidateConfig ==
    /\ InRun /\ pc = "validate"
    /\ validation' = validate_config(config)
    /\ IF ValidationRaises(validate_config(config))
       THEN error' = "ValidationError" /\ pc' = "raised"
       ELSE /\ error' = error
            /\ pc' = IF call.arg.args.generate THEN "generate" ELSE "returned"
    /\ UNCHANGED <<call, config, abi_files, fs, fs0, RunFrame>>

\* output_path / "abis" / abi_path for the ABI files, and the saved config
WizardAbiPath(abi_path) == AbisDir \o abi_path
SavedConfigPath == <<"subgraph-config.json">>

WizardWrites(files, abis) ==
    LET made == ensure_dir(ensure_dir(files, RootDir), AbisDir)
        written == {WizardAbiPath(q) : q \in {r \in AbiPaths : abis[r].kind = "abi"}}
                   \cup {SavedConfigPath}
    IN  [q \in DOMAIN made \cup written |-> IF q \in written THEN "saved" ELSE made[q]]

\* config = run_wizard(): the config is built from the answers, validated,
\* and then the abis directory, the ABI files and subgraph-config.json are
\* written
RunWizard ==
    /\ InRun /\ pc = "wizard"
    /\ config' = call.arg.config
    /\ validation' = validate_config(call.arg.config)
    /\ IF ValidationRaises(validate_config(call.arg.config))
       THEN /\ error' = "ValidationError"
            /\ pc' = "raised"
            /\ UNCHANGED <<abi_files, fs>>
       ELSE /\ abi_files' = call.arg.abi_files
            /\ fs' = WizardWrites(fs, call.arg.abi_files)
            /\ error' = error
            /\ pc' = "ask_generate"
    /\ UNCHANGED <<call, fs0, RunFrame>>

\* ask_yes_no("Generate subgraph now?")
RunAskGenerate ==
    /\ InRun /\ pc = "ask_generate"
    /\ pc' = IF call.arg.generate_now THEN "generate" ELSE "returned"
    /\ UNCHANGED <<call, config, abi_files, fs, fs0, validation, error, RunFrame>>

\* generate_subgraph_project(config, dry_run=args.dry_run), step 1
RunGenerate ==
    /\ InRun /\ pc = "generate"
    /\ dry_run' = call.arg.args.dry_run
    /\ fs' = IF call.arg.args.dry_run THEN fs ELSE prepare_project_structure(fs)
    /\ pc' = "load_abis"
    /\ UNCHANGED <<CallVars, rendered, config, abi_files, fs0, validation, GenVars, error>>

NextRun ==
    \/ RunDispatch
    \/ RunLoadConfig
    \/ RunValidateConfig
    \/ RunWizard
    \/ RunAskGenerate
    \/ RunGenerate
    \/ LoadAbiMap
    \/ GenerateSubgraphYaml
    \/ GenerateSchema
    \/ GenerateMappings
    \/ GeneratePackageJson
    \/ GenerateReadme
    \/ SafeWriteRaises

SpecRun == InitRun /\ [][NextRun]_vars

(***************************************************************************)
Accepted == validate_config(config) = "ok"
ManifestBuilt == manifest # <<>>
SchemaBuilt == schema # <<>>
MappingsBuilt == pc \in {"package_json", "readme", "done"}
Contracts == [i \in 1..Len(config.contracts) |-> config.contracts[i]]
UsedTemplates == TemplatesInUse(config)
AbiOf(owner) == AbiGet(abi_map, owner.name)

\* C1: after a completed non-dry run on an accepted config the output
\* directory holds subgraph.yaml, schema.graphql, package.json, README.md and
\* src/mappings/<Name>.ts for every contract and, in the advanced tier,
\* every template, in both mappings modes.
C1_GeneratedFileSet ==
    (pc = "done" /\ ~dry_run /\ Accepted) =>
        /\ {SubgraphYamlPath, SchemaPath, PackageJsonPath, ReadmePath} \subseteq DOMAIN fs
        /\ \A i \in 1..Len(Contracts) : MappingPath(Contracts[i].name) \in DOMAIN fs
        /\ \A i \in 1..Len(UsedTemplates) :
               MappingPath(UsedTemplates[i].name) \in DOMAIN fs

\* C2: a dry run leaves the file system as it was before the call: no
\* directory or file is created, modified or deleted.
C2_DryRunWritesNothing == dry_run => fs = fs0

C2_Witness == dry_run /\ pc = "done" /\ MappingsBuilt /\ DOMAIN mappings # {}

\* C3: in the intermediate and advanced tiers and in both mappings modes,
\* the mapping of a contract has one call handler per declared signature and
\* a block handler when block_handler is set, named as in the manifest.
C3_MappingHandlersMatchManifest ==
    (MappingsBuilt /\ Accepted /\ config.complexity \in {"intermediate", "advanced"}) =>
        \A i \in 1..Len(Contracts) :
            LET contract == Contracts[i]
                mapping == mappings[contract.name]
                source == manifest[1].contracts[i]
                declared == IF Truthy(contract.call_handlers)
                            THEN contract.call_handlers.items ELSE <<>>
            IN  /\ Len(mapping.call_handlers) = Len(declared)
                /\ [k \in 1..Len(mapping.call_handlers) |-> mapping.call_handlers[k].name]
                      = [k \in 1..Len(source.call_handlers) |->
                            source.call_handlers[k].handler_name]
                /\ contract.block_handler <=>
                      (mapping.block_handler # <<>> /\ source.block_handler)
                /\ contract.block_handler =>
                      /\ mapping.block_handler[1].name = source.block_handler_name
                      /\ mapping.block_handler[1].name = <<"handle", contract.name, "Block">>

\* C4: for every contract and every state of its ABI, the event-derived
\* entity names of its manifest data source are, in order, the names of the
\* schema entities built for that contract.
C4_ManifestEntitiesMatchSchema ==
    ManifestBuilt =>
        \A i \in 1..Len(Contracts) :
            LET source == manifest[1].contracts[i]
                built == SchemaEntitiesForContract(Contracts[i], abi_map)
                derived == Len(source.event_handlers)
            IN  /\ Len(source.entities) >= derived
                /\ SubSeq(source.entities, 1, derived)
                      = [k \in 1..Len(built) |-> built[k].name]

\* a data source built from an ABI with several events, its handler
\* entities appended after the event-derived ones
C4_Witness ==
    /\ ManifestBuilt
    /\ \E i \in 1..Len(Contracts) :
           /\ Truthy(AbiOf(Contracts[i]))
           /\ Len(extract_events(AbiOf(Contracts[i]).items)) >= 2
           /\ Len(manifest[1].contracts[i].entities) >= 2

\* C5: for the same contract, network, ABI, complexity and templates, stub
\* mode and auto mode derive the same imports (types and source paths), the
\* same handlers (name, event type, entity name) and the same camelCase
\* parameter-copy entries.
HandlerShape(handlers) ==
    [k \in 1..Len(handlers) |->
        [name |-> handlers[k].name, event_type |-> handlers[k].event_type,
         entity_name |-> handlers[k].entity_name, params |-> handlers[k].params]]

C5_StubAutoSameDerivation ==
    (MappingsBuilt /\ Accepted) =>
        \A i \in 1..Len(Contracts) :
            LET stub == render_mapping_stub(Contracts[i], config.network,
                                            AbiOf(Contracts[i]), config.complexity)
                auto == render_mapping_auto(Contracts[i], config.network,
                                            AbiOf(Contracts[i]), config.complexity,
                                            UsedTemplates)
            IN  /\ stub.imports = auto.imports
                /\ HandlerShape(stub.handlers) = HandlerShape(auto.handlers)

\* C6: in the advanced tier, a template whose ABI is absent or has no event
\* named in its event_handlers gets exactly one empty-field placeholder
\* entity per declared event-handler name in the schema.
C6_TemplatePlaceholderEntities ==
    (SchemaBuilt /\ Accepted /\ config.complexity = "advanced") =>
        \A i \in 1..Len(UsedTemplates) :
            LET template == UsedTemplates[i]
            IN  FilteredEvents(template, AbiOf(template)) = <<>> =>
                    build_entities_from_template(template, AbiOf(template))
                      = [k \in 1..Len(template.event_handlers) |->
                            [name |-> <<template.event_handlers[k]>>, fields |-> <<>>]]

\* C7: in the advanced tier, the handler of an event that is the
\* source_event of a template of the contract instantiates the template with
\* the first non-indexed address parameter, else the first indexed address
\* parameter, and with the placeholder token only when the event has no
\* address parameter.
AddressParams(event, indexed) ==
    SelectSeq(event.params,
              LAMBDA q : q.solidity_type = <<"address">> /\ q.indexed = indexed)

ExpectedAddressParam(event) ==
    IF AddressParams(event, FALSE) # <<>> THEN AddressParams(event, FALSE)[1].name
    ELSE IF AddressParams(event, TRUE) # <<>> THEN AddressParams(event, TRUE)[1].name
    ELSE ADDRESS_PARAM_HERE

C7_TemplateAddressParam ==
    (MappingsBuilt /\ Accepted /\ config.complexity = "advanced"
       /\ config.mappings_mode = "auto") =>
        \A i \in 1..Len(Contracts) :
            Truthy(AbiOf(Contracts[i])) =>
                LET events == extract_events(AbiOf(Contracts[i]).items)
                    handlers == mappings[Contracts[i].name].handlers
                IN  \A k \in 1..Len(events) :
                        (\E j \in 1..Len(UsedTemplates) :
                            /\ UsedTemplates[j].source_contract = Contracts[i].name
                            /\ UsedTemplates[j].source_event = events[k].name) =>
                            /\ handlers[k].template_creation # <<>>
                            /\ handlers[k].template_creation[1].address_param
                                  = ExpectedAddressParam(events[k])

\* C8: an accepted config carries, wherever generation uses them (contracts
\* in the intermediate and advanced tiers, templates in the advanced tier),
\* only call-handler signatures that are valid and have a function name.
SignatureValid(signature) ==
    /\ validate_call_handler_signature(signature) = "ok"
    /\ FuncName(signature) # <<>>

SignaturesValid(owner) ==
    Truthy(owner.call_handlers) =>
        \A k \in 1..Len(owner.call_handlers.items) :
            SignatureValid(owner.call_handlers.items[k])

C8_AcceptedSignaturesValid ==
    (pc = "validated" /\ validation = "ok") =>
        /\ config.complexity \in {"intermediate", "advanced"} =>
               \A i \in 1..Len(Contracts) : SignaturesValid(Contracts[i])
        /\ \A i \in 1..Len(UsedTemplates) : SignaturesValid(UsedTemplates[i])

\* C9: validate_config raises when two contracts have the same name or
\* addresses equal ignoring letter case, so the contracts of an accepted
\* config have pairwise distinct names and pairwise distinct addresses
\* ignoring case.
SameContract(i, j) ==
    \/ Contracts[i].name = Contracts[j].name
    \/ LowerStr(Contracts[i].address) = LowerStr(Contracts[j].address)

HasTwin == \E i, j \in 1..Len(Contracts) : i # j /\ SameContract(i, j)

C9_DuplicatesRejected ==
    /\ HasTwin => ~Accepted
    /\ pc = "validated" => ~HasTwin

C9_Witness ==
    /\ pc = "rejected"
    /\ validation = "Duplicate contract addresses"
    /\ \E i, j \in 1..Len(Contracts) :
           /\ Contracts[i].name # Contracts[j].name
           /\ Contracts[i].address # Contracts[j].address
           /\ SameContract(i, j)

\* C10: in the advanced tier validation raises for every config with a
\* template whose source_contract names no contract of the config, so no such
\* config goes from validation to generation.
HasUnknownSource ==
    \E i \in 1..Len(config.templates) :
        config.templates[i].source_contract \notin Range(ContractNamesOf(config))

C10_UnknownSourceRejected ==
    (config.complexity = "advanced" /\ HasUnknownSource) =>
        /\ ~Accepted
        /\ pc # "validated"
        /\ validation # "ok"

C10_Witness ==
    /\ config.complexity = "advanced"
    /\ HasUnknownSource
    /\ pc = "rejected"
    /\ validation = "unknown source_contract"

\* C11: outside the advanced tier, populated templates and
\* entity_relationships cause no error and change no artifact: validation
\* decides as without them, the manifest has no templates section and no
\* template ABI reference, the schema has only the contracts' entities with
\* no relationship field, and the mappings are the contracts' alone, with no
\* template import and no template instantiation.
Populated == config.templates # <<>> \/ config.entity_relationships # <<>>

Unpopulated == [config EXCEPT !.templates = <<>>, !.entity_relationships = <<>>]

C11_IgnoredOutsideAdvanced ==
    (config.complexity \in {"basic", "intermediate"} /\ Populated) =>
        /\ validate_config(config) = validate_config(Unpopulated)
        /\ pc \in {"validated", "rejected"} => validation = validate_config(Unpopulated)
        /\ ManifestBuilt =>
               /\ manifest[1].templates = <<>>
               /\ \A i \in 1..Len(Contracts) :
                      manifest[1].contracts[i].template_abis = <<>>
        /\ SchemaBuilt =>
               schema[1] = Concat([i \in 1..Len(Contracts) |->
                                      SchemaEntitiesForContract(Contracts[i], abi_map)])
        /\ MappingsBuilt =>
               /\ DOMAIN mappings = Range(ContractNamesOf(config))
               /\ mappings = RenderAllMappings(Unpopulated, abi_map)
               /\ \A n \in DOMAIN mappings :
                      /\ \A k \in 1..Len(mappings[n].imports) :
                             mappings[n].imports[k].from # <<"../../generated/templates">>
                      /\ \A k \in 1..Len(mappings[n].handlers) :
                             DictGet(mappings[n].handlers[k], "template_creation", <<>>)
                               = <<>>

C11_Witness ==
    /\ config.complexity = "intermediate"
    /\ config.templates # <<>>
    /\ config.entity_relationships # <<>>
    /\ validation = "ok"
    /\ pc = "done"

\* C12: for every SubgraphConfig c, whatever its complexity, its
\* config_version and its optional fields (set, empty or absent),
\* SubgraphConfig.from_dict(c.to_dict()) equals c on every field, nested
\* contracts, templates and entity relationships included.
C12_RoundTrip ==
    (call.fn = "to_dict" /\ pc = "returned") => result = call.arg

Returned(fn) == call.fn = fn /\ pc = "returned"

\* C13: the signature of every event extract_events returns is the event
\* name, then the raw types of its ABI inputs in ABI order, comma-joined in
\* parentheses, and does not change with the indexed flags of the inputs.
NamedEvents(abi) ==
    SelectSeq(abi, LAMBDA e : e.type = "event" /\ DictGet(e, "name", "") # "")

RawTypes(entry) ==
    [k \in 1..Len(DictGet(entry, "inputs", <<>>)) |->
        DictGet(entry.inputs[k], "type", <<>>)]

FlipIndexed(entry) ==
    [f \in DOMAIN entry |->
        IF f = "inputs"
        THEN [k \in 1..Len(entry.inputs) |->
                 [g \in DOMAIN entry.inputs[k] \cup {"indexed"} |->
                     IF g = "indexed" THEN ~DictGet(entry.inputs[k], "indexed", FALSE)
                     ELSE entry.inputs[k][g]]]
        ELSE entry[f]]

C14_SignatureMarksIndexed ==
    Returned("build_event_signature") =>
        result = <<call.arg.event_name, "(">>
                 \o JoinComma([k \in 1..Len(call.arg.inputs) |->
                                  IF DictGet(call.arg.inputs[k], "indexed", FALSE)
                                  THEN <<"indexed ">>
                                       \o DictGet(call.arg.inputs[k], "type", <<>>)
                                  ELSE DictGet(call.arg.inputs[k], "type", <<>>)])
                 \o <<")">>

\* C15: for every type T, an array type included, solidity_type_to_graph of
\* T + "[]" and of T + "[N]" both are "[" + solidity_type_to_graph(T) + "!]".
C15_ArrayLaw ==
    Returned("solidity_type_to_graph") =>
        /\ result.dynamic = <<"[">> \o result.plain \o <<"!]">>
        /\ result.fixed = <<"[">> \o result.plain \o <<"!]">>

\* C16: to_camel_case(name) is the first underscore-separated segment
\* lowercased, then each later segment with its first letter upper-cased and
\* its other letters unchanged; the empty name maps to the empty name.
UpperFirst(part) == IF part = <<>> THEN <<>> ELSE <<Upper(part[1])>> \o Tail(part)

C16_CamelCaseKeepsRest ==
    Returned("to_camel_case") =>
        LET parts == SplitUnderscore(call.arg)
        IN  result = IF call.arg = <<>> THEN <<>>
                     ELSE LowerStr(parts[1])
                          \o Concat([i \in 1..(Len(parts) - 1) |->
                                        UpperFirst(parts[i + 1])])

\* C17: extract_events raises no exception on an ABI whose entries all
\* have a type field: malformed event entries are skipped or defaulted and
\* the call returns a sequence of events.
C17_ExtractEventsNeverRaises ==
    call.fn = "extract_events" => (pc # "raised" /\ error = "none")

\* C18: the command-line entry point exits with code 1 for every error
\* raised during a run, a SubgraphWizardError or any other, and with code
\* 130 when the user interrupts the run.
C18_ExitCodes ==
    (call.fn = "run" /\ pc = "exited") =>
        /\ error \notin {"none", "SystemExit(0)", "KeyboardInterrupt"}
              => result.exit_code = 1
        /\ error = "KeyboardInterrupt" => result.exit_code = 130

\* C19: the message of an AbiFetchError raised by fetch_abi_from_explorer
\* holds neither the API key nor a piece of the request URL's query string,
\* and is the message the same call raises under any other API key.
QueryPieces == {"?module=contract", "&action=getabi", "&address=", "&apikey="}

MessageOf(network, address, environ, transport, body) ==
    IF network \notin SUPPORTED_NETWORKS THEN UnsupportedNetworkMessage(network)
    ELSE IF transport # "ok"
    THEN TransportMessage(
             network,
             build_explorer_url(network, address,
                                get_api_key_for_network(network, environ)),
             transport)
    ELSE ResponseMessage(network, address, body)

C19_MessageSanitized ==
    (call.fn = "fetch_abi_from_explorer" /\ pc = "raised") =>
        /\ \A k \in 1..Len(result.message) :
               /\ result.message[k] \notin ApiKeys \ {""}
               /\ result.message[k] \notin QueryPieces
        /\ \A environ \in Environs :
               result.message = MessageOf(call.arg.network, call.arg.address, environ,
                                          call.arg.transport, call.arg.body)

C19_Witness ==
    /\ call.fn = "fetch_abi_from_explorer"
    /\ pc = "raised"
    /\ "url" \in DOMAIN result
    /\ result.api_key = "super-secret-key-12345"
    /\ \E k \in 1..Len(result.url) : result.url[k] = "super-secret-key-12345"
    /\ call.arg.transport = "ConnectionError"

\* C20: in a run that is not a dry run, when the first artifact is on disk
\* every artifact has been rendered: the manifest, the schema, the mapping
\* of every contract and used template, package.json and the README.
ArtifactPaths ==
    {SubgraphYamlPath, SchemaPath, PackageJsonPath, ReadmePath}
    \cup {MappingPath(Contracts[i].name) : i \in 1..Len(Contracts)}
    \cup {MappingPath(UsedTemplates[i].name) : i \in 1..Len(UsedTemplates)}

C20_AllRenderedBeforeFirstWrite ==
    (call.fn = "generate_subgraph_project" /\ ~dry_run
       /\ \E q \in DOMAIN fs : fs[q] = "generated")
    => ArtifactPaths \subseteq rendered

\* C21: when a run that is not a dry run has aborted with an exception, the
\* generated files on disk are exactly a prefix of the write order
\* subgraph.yaml, schema.graphql, the mappings of the contracts in
\* declaration order, the mappings of the templates, package.json,
\* README.md: no later file is there when an earlier one is not.
Generated == {q \in DOMAIN fs : fs[q] = "generated"}

WriteOrder ==
    <<SubgraphYamlPath, SchemaPath>>
    \o [i \in 1..Len(Contracts) |-> MappingPath(Contracts[i].name)]
    \o [i \in 1..Len(UsedTemplates) |-> MappingPath(UsedTemplates[i].name)]
    \o <<PackageJsonPath, ReadmePath>>

C21_AbortLeavesPrefix ==
    (call.fn = "generate_subgraph_project" /\ pc = "aborted" /\ ~dry_run) =>
        \E k \in 0..Len(WriteOrder) : Generated = {WriteOrder[i] : i \in 1..k}

\* C22: at every moment of safe_write(path, content), also after it has
\* failed or the process has stopped at any step, the file at path holds
\* what it held before the call (or is absent if it was) or the complete
\* new content, never a part of it.
Held(files, path) == IF path \in DOMAIN files THEN <<"file", files[path]>> ELSE <<"absent">>

C22_TargetOldOrNew ==
    call.fn = "safe_write" =>
        \/ Held(fs, call.arg.path) = Held(fs0, call.arg.path)
        \/ Held(fs, call.arg.path) = <<"file", call.arg.content>>

C22_Witness ==
    /\ call.fn = "safe_write"
    /\ pc = "stopped"
    /\ TempPath \in DOMAIN fs
    /\ fs[TempPath] = <<"a">>
    /\ call.arg.content = <<"a", "b">>
    /\ Held(fs, call.arg.path) = <<"file", <<"a", "o">>>>

\* C23: for an accepted config, every entity name listed in the manifest,
\* in a data source or a template, the entities of call handlers and block
\* handlers and the template fallback names included, is the name of an
\* entity type of the schema generated from the same config and ABI map.
SchemaEntityNames == {schema[1][k].name : k \in 1..Len(schema[1])}

ManifestEntityNames ==
    UNION ({Range(manifest[1].contracts[i].entities) :
               i \in 1..Len(manifest[1].contracts)}
           \cup {Range(manifest[1].templates[i].entities) :
                    i \in 1..Len(manifest[1].templates)})

C23_ManifestEntitiesDefined ==
    (Accepted /\ ManifestBuilt /\ SchemaBuilt) =>
        ManifestEntityNames \subseteq SchemaEntityNames

\* C24: for an accepted config and every ABI, the handler names of one data
\* source or template, of its event, call and block handlers together, are
\* pairwise distinct, also when events or functions are overloaded.
Distinct(seq) == \A i, j \in 1..Len(seq) : i # j => seq[i] # seq[j]

HandlerNamesOf(source) ==
    [k \in 1..Len(source.event_handlers) |-> source.event_handlers[k].handler_name]
    \o [k \in 1..Len(source.call_handlers) |-> source.call_handlers[k].handler_name]
    \o (IF source.block_handler THEN <<source.block_handler_name>> ELSE <<>>)

C24_HandlerNamesDistinct ==
    (Accepted /\ ManifestBuilt) =>
        /\ \A i \in 1..Len(manifest[1].contracts) :
               Distinct(HandlerNamesOf(manifest[1].contracts[i]))
        /\ \A i \in 1..Len(manifest[1].templates) :
               Distinct(HandlerNamesOf(manifest[1].templates[i]))

\* C25: for an accepted config and every ABI map, the names of the entity
\* types of the generated schema are pairwise distinct, also when two
\* contracts, or a contract and a template, have events of the same name.
C25_SchemaEntityNamesDistinct ==
    (Accepted /\ SchemaBuilt) =>
        Distinct([k \in 1..Len(schema[1]) |-> schema[1][k].name])

\* C26: for an accepted config of the advanced tier the number of mapping
\* artifacts equals the number of contracts plus the number of templates:
\* no template's mapping replaces the mapping of a contract.
C26_OneMappingPerContractAndTemplate ==
    (Accepted /\ config.complexity = "advanced" /\ MappingsBuilt) =>
        Cardinality(DOMAIN mappings) = Len(config.contracts) + Len(config.templates)

(***************************************************************************)
(* C27: in a run of the command line, with --config and --generate or      *)
(* through the wizard, generation has begun only after validate_config     *)
(* returned successfully on the config in that run, and a config that      *)
(* fails validation has nothing rendered and nothing written.              *)
(***************************************************************************)
Generating == pc \in {"load_abis", "manifest", "schema", "mappings", "package_json",
                      "readme", "done", "aborted"}

C27_ValidatedBeforeGeneration ==
    InRun =>
        /\ (Generating \/ rendered # {}) =>
               validation = "ok" /\ validate_config(config) = "ok"
        /\ (config # <<>> /\ validate_config(config) # "ok") =>
               rendered = {} /\ fs = fs0 /\ ~Generating

C27_Witness ==
    /\ InRun /\ pc = "done" /\ ~call.arg.args.config /\ validation = "ok"
    /\ ReadmePath \in rendered

(***************************************************************************)
(* C29: a run of the command line with --dry-run creates and modifies no   *)
(* file and no directory, whichever other flags are given, the wizard      *)
(* included.                                                               *)
(***************************************************************************)
C29_DryRunFlagWritesNothing ==
    (InRun /\ call.arg.args.dry_run) => fs = fs0

(***************************************************************************)
(* C28: throughout the contract-collection loop of the wizard the reserved *)
(* names and the reserved lowercased addresses are exactly those of the    *)
(* contracts accepted so far, a skipped contract reserving nothing; when   *)
(* run_wizard returns, the config has at least one contract, pairwise      *)
(* distinct names and addresses distinct without regard to case.           *)
(***************************************************************************)
InLoop == InWizard /\ pc \in {"ask_name", "ask_address", "get_abi", "ask_skip",
                              "ask_another"}

C28_ReservedAreAccepted ==
    /\ InLoop =>
         /\ result.existing_names =
                {result.contracts[i].name : i \in 1..Len(result.contracts)}
         /\ result.existing_addresses =
                {LowerStr(result.contracts[i].address) : i \in 1..Len(result.contracts)}
    /\ (InWizard /\ pc = "returned") =>
         /\ Len(config.contracts) >= 1
         /\ \A i, j \in 1..Len(config.contracts) :
                i # j => /\ config.contracts[i].name # config.contracts[j].name
                         /\ LowerStr(config.contracts[i].address)
                                # LowerStr(config.contracts[j].address)

C28_Witness ==
    /\ InWizard /\ pc = "returned"
    /\ Len(config.contracts) = 2
    /\ config.contracts[1].address = Addr("A")

(***************************************************************************)
(* C30: on a validated config, whatever the abis directory holds (an ABI   *)
(* file missing, unreadable, not JSON or not an ABI), generation is not    *)
(* ended by an exception of its own, a completed run has written the full  *)
(* file set, and every contract or template whose ABI was not loaded has   *)
(* the placeholder entity and handler in the manifest.                     *)
(***************************************************************************)
FullFileSet ==
    {SubgraphYamlPath, SchemaPath, PackageJsonPath, ReadmePath}
    \cup {MappingPath(Contracts[i].name) : i \in 1..Len(Contracts)}
    \cup {MappingPath(UsedTemplates[i].name) : i \in 1..Len(UsedTemplates)}

Unloaded(owner) == owner.name \notin DOMAIN abi_map

C30_DegradesToPlaceholders ==
    (call.fn = "generate_subgraph_project" /\ Accepted) =>
        /\ pc = "aborted" => error = "OSError"
        /\ (pc = "done" /\ ~dry_run) => FullFileSet \subseteq Generated
        /\ ManifestBuilt =>
             /\ \A i \in 1..Len(Contracts) :
                    Unloaded(Contracts[i]) =>
                        /\ manifest[1].contracts[i].event_handlers
                               = PlaceholderEventHandlers(Contracts[i])
                        /\ Range(PlaceholderEntities(Contracts[i]))
                               \subseteq Range(manifest[1].contracts[i].entities)
             /\ \A i \in 1..Len(UsedTemplates) :
                    Unloaded(UsedTemplates[i]) =>
                        /\ manifest[1].templates[i].event_handlers
                               = TemplateFallbackHandlers(UsedTemplates[i])
                        /\ Range(TemplateFallbackEntities(UsedTemplates[i]))
                               \subseteq Range(manifest[1].templates[i].entities)

====
